---- MODULE Spec2Model ----
(***************************************************************************)
(* URL <-> query-parameter synchronisation of the request editor           *)
(* (src/src/url_params.rs, src/src/request_editor.rs) and the tab          *)
(* operations of the application that load requests into the editor        *)
(* (src/src/app.rs).                                                       *)
(*                                                                         *)
(* A string is the sequence of its UTF-8 bytes, so that percent-encoding   *)
(* and percent-decoding are computed byte by byte as the libraries do.     *)
(***************************************************************************)
EXTENDS Integers, Sequences, FiniteSets, TLC

(***************************************************************************)
(* Characters with a meaning in the code.                                  *)
(***************************************************************************)
QM == 63
LBRACE == 123
RBRACE == 125
LBRACKET == 91
RBRACKET == 93
QUOTE == 34
COMMA == 44
NEWLINE == 10
AMP == 38
EQ == 61
PCT == 37
HASH == 35
COLON == 58
PLUS == 43
SPACE == 32

\* Letters used by the inputs of the model.
Ch == [a |-> 97, b |-> 98, h |-> 104, s |-> 115, two |-> 50, six |-> 54, F |-> 70]

EmptyStr == << >>

(***************************************************************************)
(* Bounds of the model.                                                    *)
(***************************************************************************)
MaxRows == 2
MaxPairs == 2
MaxLen == 5
MaxJson == 5

(***************************************************************************)
(* String helpers (str::find, str::split, slicing).                        *)
(***************************************************************************)
RECURSIVE FindFrom(_, _, _)
FindFrom(s, c, i) ==
    IF i > Len(s) THEN 0
    ELSE IF s[i] = c THEN i
    ELSE FindFrom(s, c, i + 1)

\* Index of the first occurrence of c in s, 0 when there is none.
Find(s, c) == FindFrom(s, c, 1)

Prefix(s, n) == SubSeq(s, 1, n)
Suffix(s, n) == SubSeq(s, n, Len(s))

RECURSIVE Split(_, _)
Split(s, c) ==
    LET p == Find(s, c)
    IN  IF p = 0 THEN << s >>
        ELSE << Prefix(s, p - 1) >> \o Split(Suffix(s, p + 1), c)

RECURSIVE Join(_, _)
Join(parts, c) ==
    IF Len(parts) = 0 THEN EmptyStr
    ELSE IF Len(parts) = 1 THEN parts[1]
    ELSE parts[1] \o << c >> \o Join(Tail(parts), c)

(***************************************************************************)
(* Percent-encoding (crate urlencoding, as called by the code).            *)
(***************************************************************************)
IsAlpha(c) == (c >= 65 /\ c <= 90) \/ (c >= 97 /\ c <= 122)
IsDigit(c) == c >= 48 /\ c <= 57
IsUnreserved(c) == IsAlpha(c) \/ IsDigit(c) \/ c \in {45, 46, 95, 126}

HexDigit(n) == IF n < 10 THEN 48 + n ELSE 55 + n

HexVal(c) ==
    IF IsDigit(c) THEN c - 48
    ELSE IF c >= 65 /\ c <= 70 THEN c - 55
    ELSE IF c >= 97 /\ c <= 102 THEN c - 87
    ELSE -1

\* A builder that writes keys and values as they are.
EncodeRaw(s) == s

\* urlencoding::encode: every byte outside the unreserved set becomes %XX.
RECURSIVE Encode(_)
Encode(s) ==
    IF s = << >> THEN << >>
    ELSE (IF IsUnreserved(Head(s)) THEN << Head(s) >>
          ELSE << PCT, HexDigit(Head(s) \div 16), HexDigit(Head(s) % 16) >>)
         \o Encode(Tail(s))

\* Percent-decoding to bytes: %XX with two hex digits is one byte, any other
\* '%' stays as it is.
RECURSIVE DecodeBytes(_)
DecodeBytes(s) ==
    IF s = << >> THEN << >>
    ELSE IF Head(s) = PCT /\ Len(s) >= 3 /\ HexVal(s[2]) >= 0 /\ HexVal(s[3]) >= 0
         THEN << 16 * HexVal(s[2]) + HexVal(s[3]) >> \o DecodeBytes(SubSeq(s, 4, Len(s)))
    ELSE << Head(s) >> \o DecodeBytes(Tail(s))

IsCont(b, i) == i <= Len(b) /\ b[i] >= 128 /\ b[i] <= 191
InRange(b, i, lo, hi) == i <= Len(b) /\ b[i] >= lo /\ b[i] <= hi

\* Range allowed for the second byte of a multi-byte sequence with lead c.
SecondLo(c) == IF c = 224 THEN 160 ELSE IF c = 240 THEN 144 ELSE 128
SecondHi(c) == IF c = 237 THEN 159 ELSE IF c = 244 THEN 143 ELSE 191

\* Number of bytes the lead byte c announces, 0 for a byte that cannot lead.
Utf8Width(c) ==
    IF c < 128 THEN 1
    ELSE IF c >= 194 /\ c <= 223 THEN 2
    ELSE IF c >= 224 /\ c <= 239 THEN 3
    ELSE IF c >= 240 /\ c <= 244 THEN 4
    ELSE 0

\* Length of the well-formed UTF-8 sequence that starts at b[i], 0 if none.
Utf8SeqLen(b, i) ==
    LET w == Utf8Width(b[i])
    IN  IF w <= 1 THEN w
        ELSE IF ~InRange(b, i + 1, SecondLo(b[i]), SecondHi(b[i])) THEN 0
        ELSE IF w = 2 THEN 2
        ELSE IF ~IsCont(b, i + 2) THEN 0
        ELSE IF w = 3 THEN 3
        ELSE IF ~IsCont(b, i + 3) THEN 0
        ELSE 4

\* Length of the ill-formed chunk at b[i] that from_utf8_lossy replaces by
\* one U+FFFD (the maximal prefix of a well-formed sequence, at least one).
Utf8BadLen(b, i) ==
    LET w == Utf8Width(b[i])
    IN  IF w <= 1 THEN 1
        ELSE IF ~InRange(b, i + 1, SecondLo(b[i]), SecondHi(b[i])) THEN 1
        ELSE IF w = 2 THEN 1
        ELSE IF ~IsCont(b, i + 2) THEN 2
        ELSE 3

RECURSIVE Utf8ValidFrom(_, _)
Utf8ValidFrom(b, i) ==
    IF i > Len(b) THEN TRUE
    ELSE LET n == Utf8SeqLen(b, i)
         IN  n > 0 /\ Utf8ValidFrom(b, i + n)

Utf8Valid(b) == Utf8ValidFrom(b, 1)

RECURSIVE Utf8LossyFrom(_, _)
Utf8LossyFrom(b, i) ==
    IF i > Len(b) THEN << >>
    ELSE LET n == Utf8SeqLen(b, i)
         IN  IF n > 0 THEN SubSeq(b, i, i + n - 1) \o Utf8LossyFrom(b, i + n)
             ELSE << 239, 191, 189 >> \o Utf8LossyFrom(b, i + Utf8BadLen(b, i))

\* String::from_utf8_lossy
Utf8Lossy(b) == Utf8LossyFrom(b, 1)

\* urlencoding::decode(..).map(|s| s.to_string()).unwrap_or_default():
\* the decoded text, or the empty string when the bytes are not UTF-8.
DecodeOrDefault(s) ==
    LET b == DecodeBytes(s)
    IN  IF Utf8Valid(b) THEN b ELSE EmptyStr

\* form_urlencoded's decode: '+' is a space, then percent-decoding, lossy.
FormDecode(s) ==
    Utf8Lossy(DecodeBytes([i \in 1..Len(s) |-> IF s[i] = PLUS THEN SPACE ELSE s[i]]))

(***************************************************************************)
(* Url::parse and Url::query_pairs (crate url), for texts without '/':     *)
(* a text with a scheme parses, with an opaque path; any other text is a   *)
(* relative reference and fails to parse.                                  *)
(***************************************************************************)
IsSchemeChar(c) == IsAlpha(c) \/ IsDigit(c) \/ c \in {43, 45, 46}
IsC0OrSpace(c) == c <= 32
IsTabOrNewline(c) == c \in {9, 10, 13}

RECURSIVE TrimLeft(_)
TrimLeft(s) ==
    IF s # << >> /\ IsC0OrSpace(Head(s)) THEN TrimLeft(Tail(s)) ELSE s

RECURSIVE TrimRight(_)
TrimRight(s) ==
    IF s # << >> /\ IsC0OrSpace(s[Len(s)]) THEN TrimRight(Prefix(s, Len(s) - 1)) ELSE s

\* The input as the URL parser reads it: trimmed, tabs and newlines removed.
UrlInput(s) ==
    SelectSeq(TrimRight(TrimLeft(s)), LAMBDA c : ~IsTabOrNewline(c))

\* Url::parse(url).is_ok()
UrlParseOk(s) ==
    LET t == UrlInput(s)
        p == Find(t, COLON)
    IN  /\ p > 1
        /\ IsAlpha(t[1])
        /\ \A i \in 1..(p - 1) : IsSchemeChar(t[i])

\* Url::query(): the text between the first '?' and the fragment; some is
\* FALSE when there is no '?' before the fragment.
UrlQuery(s) ==
    LET t == UrlInput(s)
        h == Find(t, HASH)
        pre == IF h = 0 THEN t ELSE Prefix(t, h - 1)
        q == Find(pre, QM)
    IN  IF q = 0 THEN [some |-> FALSE, text |-> EmptyStr]
        ELSE [some |-> TRUE, text |-> Suffix(pre, q + 1)]

\* form_urlencoded::parse of one '&'-separated segment.
FormPair(seg) ==
    LET e == Find(seg, EQ)
    IN  IF e = 0 THEN << FormDecode(seg), EmptyStr >>
        ELSE << FormDecode(Prefix(seg, e - 1)), FormDecode(Suffix(seg, e + 1)) >>

NonEmptySegments(q) == SelectSeq(Split(q, AMP), LAMBDA seg : seg # << >>)

\* Url::query_pairs(): empty segments are skipped, empty keys are kept.
QueryPairs(s) ==
    LET q == UrlQuery(s)
        segs == NonEmptySegments(q.text)
    IN  IF ~q.some THEN << >>
        ELSE [i \in 1..Len(segs) |-> FormPair(segs[i])]


(***************************************************************************)
(* src/src/url_params.rs                                                   *)
(***************************************************************************)
\* A QueryParam.
QueryParam(k, v, e) == [key |-> k, value |-> v, enabled |-> e]

\* A cut one character too late: the '?' stays in the result.
ExtractThroughMark(u) ==
    LET p == Find(u, QM)
    IN  IF p # 0 THEN Prefix(u, p) ELSE u

extract_base_url(u) ==
    LET p == Find(u, QM)
    IN  IF p # 0 THEN Prefix(u, p - 1) ELSE u

\* A scan that gives nothing for a segment without '='.
ManualPairWithEq(seg) ==
    LET e == Find(seg, EQ)
        key == DecodeOrDefault(Prefix(seg, e - 1))
        value == DecodeOrDefault(Suffix(seg, e + 1))
    IN  IF e # 0 /\ key # << >> THEN << << key, value >> >> ELSE << >>

\* One segment of the manual scan of parse_query_params: zero or one pair.
ManualPair(seg) ==
    LET e == Find(seg, EQ)
        key == IF e # 0 THEN DecodeOrDefault(Prefix(seg, e - 1)) ELSE DecodeOrDefault(seg)
        value == IF e # 0 THEN DecodeOrDefault(Suffix(seg, e + 1)) ELSE EmptyStr
    IN  IF seg = << >> THEN << >>
        ELSE IF key # << >> THEN << << key, value >> >>
        ELSE << >>

RECURSIVE ManualPairs(_)
ManualPairs(segs) ==
    IF segs = << >> THEN << >>
    ELSE ManualPair(Head(segs)) \o ManualPairs(Tail(segs))

\* A scan that does not ask for a '?': a text without one is scanned whole.
ParseWholeText(u) ==
    IF u = << >> THEN << >>
    ELSE IF UrlParseOk(u) THEN QueryPairs(u)
    ELSE ManualPairs(Split(Suffix(u, Find(u, QM) + 1), AMP))

parse_query_params(u) ==
    IF u = << >> THEN << >>
    ELSE IF UrlParseOk(u) THEN QueryPairs(u)
    ELSE IF Find(u, QM) # 0 THEN ManualPairs(Split(Suffix(u, Find(u, QM) + 1), AMP))
    ELSE << >>

\* A filter that keeps the disabled params.
IncludedThoughDisabled(p) == p.key # << >>

\* The filter of build_url_with_params.
Included(p) == p.enabled /\ p.key # << >>

ParamPart(p) == Encode(p.key) \o << EQ >> \o Encode(p.value)

build_url_with_params(base, ps) ==
    LET kept == SelectSeq(ps, Included)
        param_parts == [i \in 1..Len(kept) |-> ParamPart(kept[i])]
    IN  IF param_parts = << >> THEN base
        ELSE base \o << QM >> \o Join(param_parts, AMP)

\* A filter that looks at the key alone.
NonEmptyKey(kv) == kv[1] # << >>

NonEmptyPair(kv) == kv[1] # << >> \/ kv[2] # << >>

params_equal(params1, params2) ==
    SelectSeq(params1, NonEmptyPair) = SelectSeq(params2, NonEmptyPair)

\* The (key, value) pairs of a list of params or rows, in order.
PairsOf(ps) == [i \in 1..Len(ps) |-> << ps[i].key, ps[i].value >>]


(***************************************************************************)
(* State.                                                                  *)
(*                                                                         *)
(* RequestEditor (src/src/request_editor.rs):                              *)
(*   url              text of url_input                                    *)
(*   params           the ParamRow list; a row is the text of its key and  *)
(*                    value inputs, its enabled flag, the subscription     *)
(*                    held on its inputs: "auto" (the key handler of       *)
(*                    add_param_row), "sync" (the handlers of a rebuilt or *)
(*                    loaded row) or "none" (dropped by                    *)
(*                    _subscriptions.clear()), and whether its entities    *)
(*                    were created by the last step                        *)
(*   updating_url, parsing_url, last_parsed_url    the fields of that name *)
(*   url_subs         number of live subscriptions on url_input            *)
(*   effects          InputEvents emitted and not yet dispatched           *)
(*   reset_tasks      spawned tasks that will clear updating_url           *)
(* Observation:                                                            *)
(*   last             the handler that ran in the last step and what it    *)
(*                    decided                                              *)
(*   pure             arguments and results of the pure functions          *)
(*                                                                         *)
(* Only InputEvent::Change is modelled.  Within a step the entity of the   *)
(* row at position i of the previous state has identity i, and an entity   *)
(* made by cx.new has an identity above those.                             *)
(***************************************************************************)
VARIABLES url, params, updating_url, parsing_url, last_parsed_url, url_subs,
          effects, reset_tasks, last, pure, app, header_editor, body_editor

editorVars == << url, params, updating_url, parsing_url, last_parsed_url, url_subs,
                 effects, reset_tasks >>
vars == << url, params, updating_url, parsing_url, last_parsed_url, url_subs,
           effects, reset_tasks, last, pure, app, header_editor, body_editor >>

ParamRow(i, k, v, en, sub) ==
    [id |-> i, key |-> k, value |-> v, enabled |-> en, sub |-> sub]

\* A row as the state keeps it.
StoredRow(k, v, en, sub, created) ==
    [key |-> k, value |-> v, enabled |-> en, sub |-> sub, created |-> created]

\* The editor as one value, for the handlers that call each other.
Editor ==
    [url |-> url,
     params |-> [i \in 1..Len(params) |->
                    ParamRow(i, params[i].key, params[i].value, params[i].enabled,
                             params[i].sub)],
     updating_url |-> updating_url,
     parsing_url |-> parsing_url, last_parsed_url |-> last_parsed_url,
     url_subs |-> url_subs, effects |-> effects, reset_tasks |-> reset_tasks,
     next_id |-> Len(params) + 1]

StoreRows(rows, old) ==
    [i \in 1..Len(rows) |->
        StoredRow(rows[i].key, rows[i].value, rows[i].enabled, rows[i].sub,
                  rows[i].id > old)]

SetEditor(e) ==
    /\ url' = e.url
    /\ params' = StoreRows(e.params, Len(params))
    /\ updating_url' = e.updating_url
    /\ parsing_url' = e.parsing_url
    /\ last_parsed_url' = e.last_parsed_url
    /\ url_subs' = e.url_subs
    /\ effects' = e.effects
    /\ reset_tasks' = e.reset_tasks

\* The rows after a step that creates no entity.
Settled(rows) == [i \in 1..Len(rows) |-> [rows[i] EXCEPT !.created = FALSE]]

IdsOf(rows) == {rows[i].id : i \in 1..Len(rows)}

\* cx.new: a row whose entities have an identity that no row of this step
\* has or had.
NewRow(e, k, v, en, sub) ==
    [e EXCEPT !.params = Append(@, ParamRow(e.next_id, k, v, en, sub)),
              !.next_id = @ + 1]

IsPlaceholder(row) == row.key = << >> /\ row.value = << >>

(***************************************************************************)
(* src/src/request_editor.rs                                               *)
(***************************************************************************)
\* The rows are created by InputState::new without set_value: nothing is
\* emitted.
add_param_row(e) == NewRow(e, EmptyStr, EmptyStr, TRUE, "auto")

\* A rebuild that appends the query to the whole URL text.
RebuildOnWholeUrl(url_str, rows) ==
    LET kept == SelectSeq(rows, LAMBDA r : r.enabled /\ r.key # << >>)
        param_parts == [i \in 1..Len(kept) |-> ParamPart(kept[i])]
    IN  IF param_parts = << >> THEN url_str
        ELSE url_str \o << QM >> \o Join(param_parts, AMP)

rebuild_url_with_params(url_str, rows) ==
    LET q == Find(url_str, QM)
        base == IF q # 0 THEN Prefix(url_str, q - 1) ELSE url_str
        kept == SelectSeq(rows, LAMBDA r : r.enabled /\ r.key # << >>)
        param_parts == [i \in 1..Len(kept) |-> ParamPart(kept[i])]
    IN  IF param_parts = << >> THEN base
        ELSE base \o << QM >> \o Join(param_parts, AMP)

\* An InputEvent of url_input; origin tells who wrote the text.
UrlEvent(origin) == [src |-> "url", id |-> 0, origin |-> origin]
KeyEvent(i) == [src |-> "key", id |-> i, origin |-> "user"]
ValueEvent(i) == [src |-> "value", id |-> i, origin |-> "user"]

\* A reset that clears the flag before sync_params_to_url returns.
ResetAtOnce(e) == [e EXCEPT !.updating_url = FALSE]

\* A sync_params_to_url that spawns no task.
NeverReset(e) == e

\* The spawned task of sync_params_to_url clears the flag in a later turn of
\* the main loop.
ScheduleReset(e) == [e EXCEPT !.reset_tasks = @ + 1]

\* A sync_params_to_url without its guard.
SyncUnguarded(e) ==
    ScheduleReset(
        [e EXCEPT !.updating_url = TRUE,
                  !.url = rebuild_url_with_params(e.url, e.params),
                  !.effects = Append(@, UrlEvent("sync"))])

sync_params_to_url(e) ==
    IF e.updating_url \/ e.parsing_url THEN e
    ELSE ScheduleReset(
            [e EXCEPT !.updating_url = TRUE,
                      !.url = rebuild_url_with_params(e.url, e.params),
                      !.effects = Append(@, UrlEvent("sync"))])

\* One segment of the manual scan of parse_url_to_params: a segment without
\* '=' gives nothing.
EditorManualPair(seg) ==
    LET e == Find(seg, EQ)
        key == DecodeOrDefault(Prefix(seg, e - 1))
        value == DecodeOrDefault(Suffix(seg, e + 1))
    IN  IF e # 0 /\ key # << >> THEN << << key, value >> >> ELSE << >>

RECURSIVE EditorManualPairs(_)
EditorManualPairs(segs) ==
    IF segs = << >> THEN << >>
    ELSE EditorManualPair(Head(segs)) \o EditorManualPairs(Tail(segs))

\* new_params of parse_url_to_params (lines 533-564); keep is TRUE on the
\* early return that leaves the params as they are.
NewParams(url_str) ==
    IF UrlParseOk(url_str) THEN [keep |-> FALSE, pairs |-> QueryPairs(url_str)]
    ELSE IF Find(url_str, QM) # 0
         THEN [keep |-> FALSE,
               pairs |-> EditorManualPairs(Split(Suffix(url_str, Find(url_str, QM) + 1), AMP))]
    ELSE IF url_str # << >> THEN [keep |-> TRUE, pairs |-> << >>]
    ELSE [keep |-> FALSE, pairs |-> << >>]

\* current_params of parse_url_to_params (lines 566-574).
CurrentParams(rows) == SelectSeq(PairsOf(rows), NonEmptyPair)

\* The comparison that decides whether the rows are rebuilt (line 577).
SameParams(new_params, current_params) == new_params = current_params

\* A parse_url_to_params without its guard.
ParseOutcomeUnguarded(e) ==
    IF e.url = e.last_parsed_url THEN "same_url"
    ELSE IF NewParams(e.url).keep THEN "kept"
    ELSE IF SameParams(NewParams(e.url).pairs, CurrentParams(e.params)) THEN "equal"
    ELSE "rebuilt"

\* Which return of parse_url_to_params is taken.
ParseOutcome(e) ==
    IF e.updating_url \/ e.parsing_url THEN "guarded"
    ELSE IF e.url = e.last_parsed_url THEN "same_url"
    ELSE IF NewParams(e.url).keep THEN "kept"
    ELSE IF SameParams(NewParams(e.url).pairs, CurrentParams(e.params)) THEN "equal"
    ELSE "rebuilt"

\* Rows built from (key, value) pairs or saved states, each subscribed to
\* sync_params_to_url after its inputs were filled: the events of filling
\* them are emitted before the subscription exists and reach no handler.
RECURSIVE PushRows(_, _)
PushRows(e, rows) ==
    IF rows = << >> THEN e
    ELSE PushRows(NewRow(e, Head(rows).key, Head(rows).value, Head(rows).enabled, "sync"),
                  Tail(rows))

PairsAsParams(pairs) == [i \in 1..Len(pairs) |-> QueryParam(pairs[i][1], pairs[i][2], TRUE)]

\* A rebuild that forgets the trailing empty row.
RebuildWithoutPlaceholder(e, new_params) ==
    LET e1 == [e EXCEPT !.parsing_url = TRUE, !.last_parsed_url = e.url, !.params = << >>]
        e2 == PushRows(e1, PairsAsParams(new_params))
    IN  [e2 EXCEPT !.parsing_url = FALSE]

\* Lines 582-623 of parse_url_to_params.
RebuildParams(e, new_params) ==
    LET e1 == [e EXCEPT !.parsing_url = TRUE, !.last_parsed_url = e.url, !.params = << >>]
        e2 == PushRows(e1, PairsAsParams(new_params))
        e3 == add_param_row(e2)
    IN  [e3 EXCEPT !.parsing_url = FALSE]

parse_url_to_params(e) ==
    LET o == ParseOutcome(e)
    IN  IF o \in {"guarded", "same_url", "kept"} THEN e
        ELSE IF o = "equal" THEN [e EXCEPT !.last_parsed_url = e.url]
        ELSE RebuildParams(e, NewParams(e.url).pairs)

toggle_param(e, index) ==
    IF index < Len(e.params)
    THEN sync_params_to_url([e EXCEPT !.params[index + 1].enabled = ~@])
    ELSE e

RemoveAt(seq, index) == SubSeq(seq, 1, index) \o SubSeq(seq, index + 2, Len(seq))

remove_param(e, index) ==
    IF index < Len(e.params)
    THEN LET e1 == [e EXCEPT !.params = RemoveAt(@, index)]
             has_params == \E i \in 1..Len(e1.params) : ~IsPlaceholder(e1.params[i])
             e2 == IF ~has_params THEN add_param_row(e1) ELSE e1
         IN  sync_params_to_url(e2)
    ELSE e

\* The key handler installed by add_param_row (lines 692-734).
AutoAddKeyHandler(e, id) ==
    LET e1 == sync_params_to_url(e)
        n == Len(e1.params)
    IN  IF n > 0 /\ e1.params[n].key # << >> /\ e1.params[n].id = id
        THEN add_param_row(e1)
        ELSE e1

\* _subscriptions.clear() drops the handlers of every row and of url_input.
ClearSubscriptions(e) ==
    [e EXCEPT !.params = [i \in 1..Len(@) |-> [@[i] EXCEPT !.sub = "none"]],
              !.url_subs = 0]

SubscribeUrl(e) == [e EXCEPT !.url_subs = @ + 1]

\* load_request, as far as the URL and the params go.  The event of the
\* set_value is emitted before the old subscription is dropped and before
\* the new one is active: it reaches no handler.
load_request(e, request_url) ==
    parse_url_to_params(SubscribeUrl(ClearSubscriptions([e EXCEPT !.url = request_url])))

\* Lines 301-304 of load_params_state: the editor while the rows are built.
load_params_begin(e) == [e EXCEPT !.params = << >>, !.parsing_url = TRUE]

load_params_state(e, state) ==
    LET e1 == load_params_begin(e)
        e2 == add_param_row(PushRows(e1, state))
    IN  SubscribeUrl([e2 EXCEPT !.parsing_url = FALSE])

get_params_state(e) ==
    LET kept == SelectSeq(e.params, LAMBDA r : ~IsPlaceholder(r))
    IN  [i \in 1..Len(kept) |-> QueryParam(kept[i].key, kept[i].value, kept[i].enabled)]


(***************************************************************************)
(* Inputs.                                                                 *)
(***************************************************************************)
UrlTexts ==
    { EmptyStr,
      << Ch.h >>,
      << Ch.s, COLON >>,
      << Ch.s, COLON, QM, Ch.a, EQ, Ch.b >>,
      << Ch.s, COLON, QM, EQ >> }

KeyTexts == { EmptyStr, << Ch.a >> }
ValueTexts == { EmptyStr, << Ch.b >> }

\* The URL texts of the specifications with fewer inputs, and the request
\* URLs that the application loads.
FewUrls ==
    { EmptyStr,
      << Ch.s, COLON >>,
      << Ch.s, COLON, QM, Ch.a, EQ, Ch.b >> }

LoadUrls ==
    { EmptyStr,
      << Ch.s, COLON, QM, Ch.a, EQ, Ch.b >> }

\* Saved params of a tab (get_params_state keeps the rows that are not
\* empty, with their enabled flags).
ParamStates ==
    { << QueryParam(<< Ch.a >>, << Ch.b >>, FALSE) >> }

(***************************************************************************)
(* Initial state: RequestEditor::new.                                      *)
(***************************************************************************)
Observed(op, src, origin, index, outcome) ==
    [op |-> op, src |-> src, origin |-> origin, index |-> index, outcome |-> outcome]

InitEditor ==
    /\ url = EmptyStr
    /\ params = << StoredRow(EmptyStr, EmptyStr, TRUE, "auto", TRUE) >>
    /\ updating_url = FALSE
    /\ parsing_url = FALSE
    /\ last_parsed_url = EmptyStr
    /\ url_subs = 1
    /\ effects = << >>
    /\ reset_tasks = 0

\* PredefinedHeader::all
PredefinedAll ==
    << "CacheControl", "ContentType", "Accept", "AcceptEncoding", "UserAgent",
       "Connection", "ContentLength" >>

\* PredefinedHeader::name
predefined_name(p) ==
    CASE p = "CacheControl" -> << 67, 97, 99, 104, 101, 45, 67, 111, 110, 116, 114, 111, 108 >>   \* Cache-Control
      [] p = "ContentType" -> << 67, 111, 110, 116, 101, 110, 116, 45, 84, 121, 112, 101 >>   \* Content-Type
      [] p = "Accept" -> << 65, 99, 99, 101, 112, 116 >>   \* Accept
      [] p = "AcceptEncoding" -> << 65, 99, 99, 101, 112, 116, 45, 69, 110, 99, 111, 100, 105, 110, 103 >>   \* Accept-Encoding
      [] p = "UserAgent" -> << 85, 115, 101, 114, 45, 65, 103, 101, 110, 116 >>   \* User-Agent
      [] p = "Connection" -> << 67, 111, 110, 110, 101, 99, 116, 105, 111, 110 >>   \* Connection
      [] p = "ContentLength" -> << 67, 111, 110, 116, 101, 110, 116, 45, 76, 101, 110, 103, 116, 104 >>   \* Content-Length

\* PredefinedHeader::default_value
default_value(p) ==
    CASE p = "CacheControl" -> << 110, 111, 45, 99, 97, 99, 104, 101 >>   \* no-cache
      [] p = "ContentType" -> << 97, 112, 112, 108, 105, 99, 97, 116, 105, 111, 110, 47, 106, 115, 111, 110 >>   \* application/json
      [] p = "Accept" -> << 42, 47, 42 >>   \* */*
      [] p = "AcceptEncoding" -> << 103, 122, 105, 112, 44, 32, 100, 101, 102, 108, 97, 116, 101, 44, 32, 98, 114 >>   \* gzip, deflate, br
      [] p = "UserAgent" -> << 80, 111, 111, 112, 109, 97, 110, 47, 49, 46, 48 >>   \* Poopman/1.0
      [] p = "Connection" -> << 107, 101, 101, 112, 45, 97, 108, 105, 118, 101 >>   \* keep-alive
      [] p = "ContentLength" -> << 48 >>   \* 0

\* PredefinedHeader::header_type
header_type(p) == IF p = "CacheControl" THEN "Mandatory" ELSE "Predefined"

\* HeaderRow of the editor; predefined "None" stands for None.
EditorHeaderRow(enabled, key, value, type, predefined) ==
    [enabled |-> enabled, key |-> key, value |-> value, header_type |-> type,
     predefined |-> predefined]

\* RequestEditor::init_predefined_headers
init_predefined_headers(headers) ==
    headers \o [i \in 1..Len(PredefinedAll) |->
                   EditorHeaderRow(TRUE, predefined_name(PredefinedAll[i]),
                                   default_value(PredefinedAll[i]),
                                   header_type(PredefinedAll[i]), PredefinedAll[i])]

\* RequestEditor::add_custom_header_row
add_custom_header_row(headers) ==
    Append(headers, EditorHeaderRow(TRUE, << >>, << >>, "Custom", "None"))

\* The header rows of RequestEditor::new, with no state saved and no
\* request loaded yet:
\*   headers         RequestEditor.headers
\*   headers_state   the state a tab keeps (get_headers_state); "None" when
\*                   there is none
\*   request         the headers of the request that was loaded last
NewHeaderEditor ==
    [headers |-> add_custom_header_row(init_predefined_headers(<< >>)),
     headers_state |-> "None",
     request |-> << >>]

\* BodyEditor::new
\*   body_type_index       0 None, 1 Raw, 2 FormData
\*   raw, current_raw_subtype   the text and the subtype of the raw editor
\*   formdata_rows         the rows
\*   inputs                formdata_input_states: per row the texts of the
\*                         key and value inputs and the row index that the
\*                         handler of its Text/File selector has captured
\* FormDataValue and FormDataRow of src/src/types.rs
FormText(text) == [t |-> "Text", payload |-> text]
FormFile(path) == [t |-> "File", payload |-> path]

FormDataRow(enabled, key, value) == [enabled |-> enabled, key |-> key, value |-> value]

\* BodyEditor::add_formdata_row.  The handler of the Text/File selector of
\* the new row keeps row_index, the number of rows before the push.
add_formdata_row(be) ==
    [be EXCEPT
        !.formdata_rows = Append(@, FormDataRow(TRUE, << >>, FormText(<< >>))),
        !.formdata_input_states = Append(@, [row_index |-> Len(be.formdata_rows)])]

\* BodyEditor::new.  op is the operation that ran last, which the code does
\* not keep.
NewBodyEditor ==
    add_formdata_row(
        [body_type_index |-> 1, raw_body_editor |-> << >>, current_raw_subtype |-> "Json",
         formdata_rows |-> << >>, formdata_input_states |-> << >>,
         op |-> [name |-> "new"]])

NoResponse == [t |-> "None"]

\* RequestTab::new_empty; history_id 0 stands for None.  Of the request the
\* tab keeps, the URL text is modelled.  The fields history_id and response
\* are the ones that app.rs reads and writes: a new tab has neither, a tab
\* opened from history has the id and the response of the item.
new_empty(id) == [id |-> id, history_id |-> 0, request |-> EmptyStr, response |-> NoResponse]

\* RequestTab::from_history
from_history(id, item) ==
    [id |-> id, history_id |-> item.id, request |-> item.request, response |-> item.response]

\* PoopmanApp::new with its RequestEditor and ResponseViewer:
\*   request     the URL text in the editor
\*   loading     RequestEditor.loading
\*   tasks       the tasks spawned by send_request that have not ended
\*   completed   the RequestCompleted events emitted so far
\*   sends       the number of tasks spawned so far
\*   crashed     a task has panicked
\*   viewer      the response in the ResponseViewer
\*   tabs, active, next_tab_id    request_tabs, active_tab_index, next_tab_id
\*   history     the rows of the history table, oldest first
NewApp ==
    [request |-> EmptyStr, loading |-> FALSE, tasks |-> << >>, completed |-> << >>,
     sends |-> 0, crashed |-> FALSE, viewer |-> NoResponse,
     tabs |-> << new_empty(0) >>, active |-> 0, next_tab_id |-> 1,
     history |-> << >>]

Init ==
    /\ InitEditor
    /\ app = NewApp
    /\ header_editor = NewHeaderEditor
    /\ body_editor = NewBodyEditor
    /\ last = Observed("new", "none", "none", 0, "none")
    /\ pure = [stage |-> "idle"]

(***************************************************************************)
(* User input.  An input event is handled in a turn of the main loop of    *)
(* its own, after the effects of the previous turn were flushed.           *)
(***************************************************************************)
Idle == effects = << >>

\* The user changes the text of the URL field.
UrlEdit(u) ==
    /\ Idle
    /\ u # url
    /\ Len(parse_query_params(u)) < MaxRows
    /\ url' = u
    /\ params' = Settled(params)
    /\ effects' = << UrlEvent("user") >>
    /\ last' = Observed("edit", "url", "user", 0, "none")
    /\ UNCHANGED << updating_url, parsing_url, last_parsed_url, url_subs,
                    reset_tasks, pure, app, header_editor, body_editor >>

\* The user changes the key text of row i (1-based position).
KeyEdit(i, k) ==
    /\ Idle
    /\ i \in 1..Len(params)
    /\ k # params[i].key
    /\ (i = Len(params) /\ params[i].key = << >>) => Len(params) < MaxRows
    /\ params' = Settled([params EXCEPT ![i].key = k])
    /\ effects' = << KeyEvent(i) >>
    /\ last' = Observed("edit", "key", "user", 0, "none")
    /\ UNCHANGED << url, updating_url, parsing_url, last_parsed_url, url_subs,
                    reset_tasks, pure, app, header_editor, body_editor >>

\* The user changes the value text of row i.
ValueEdit(i, v) ==
    /\ Idle
    /\ i \in 1..Len(params)
    /\ v # params[i].value
    /\ params' = Settled([params EXCEPT ![i].value = v])
    /\ effects' = << ValueEvent(i) >>
    /\ last' = Observed("edit", "value", "user", 0, "none")
    /\ UNCHANGED << url, updating_url, parsing_url, last_parsed_url, url_subs,
                    reset_tasks, pure, app, header_editor, body_editor >>

\* The user clicks the checkbox of the row at index.
ToggleParam(index) ==
    /\ Idle
    /\ index < Len(params)
    /\ SetEditor(toggle_param(Editor, index))
    /\ last' = Observed("toggle_param", "none", "user", 0,
                        IF updating_url \/ parsing_url THEN "guarded" ELSE "synced")
    /\ UNCHANGED << pure, app, header_editor, body_editor >>

\* The user clicks the delete button of the row at index.
RemoveParam(index) ==
    /\ Idle
    /\ index < Len(params)
    /\ SetEditor(remove_param(Editor, index))
    /\ last' = Observed("remove_param", "none", "user", index,
                        IF updating_url \/ parsing_url THEN "guarded" ELSE "synced")
    /\ UNCHANGED << pure, app, header_editor, body_editor >>

(***************************************************************************)
(* Dispatch of one pending InputEvent to the subscribed handlers.          *)
(***************************************************************************)
RECURSIVE Times(_, _)
\* parse_url_to_params, once per live subscription on url_input.
Times(e, n) == IF n = 0 THEN e ELSE Times(parse_url_to_params(e), n - 1)

RowWithId(e, id) == CHOOSE i \in 1..Len(e.params) : e.params[i].id = id

HandleEvent(e, ev) ==
    IF ev.src = "url" THEN Times(e, e.url_subs)
    ELSE IF ev.id \notin IdsOf(e.params) THEN e
    ELSE LET row == e.params[RowWithId(e, ev.id)]
         IN  IF row.sub = "none" THEN e
             ELSE IF ev.src = "key" /\ row.sub = "auto" THEN AutoAddKeyHandler(e, ev.id)
             ELSE sync_params_to_url(e)

HandlerOutcome(e, ev) ==
    IF ev.src = "url" THEN (IF e.url_subs = 0 THEN "unheard" ELSE ParseOutcome(e))
    ELSE IF ev.id \notin IdsOf(e.params) THEN "unheard"
    ELSE IF e.params[RowWithId(e, ev.id)].sub = "none" THEN "unheard"
    ELSE IF e.updating_url \/ e.parsing_url THEN "guarded"
    ELSE "synced"

Deliver ==
    /\ effects # << >>
    /\ LET ev == Head(effects)
           e0 == [Editor EXCEPT !.effects = Tail(effects)]
       IN  /\ SetEditor(HandleEvent(e0, ev))
           /\ last' = Observed("deliver", ev.src, ev.origin, 0, HandlerOutcome(e0, ev))
    /\ UNCHANGED << pure, app, header_editor, body_editor >>

\* The task spawned by sync_params_to_url runs: this.updating_url = false.
ResetUpdatingUrl ==
    /\ reset_tasks > 0
    /\ Idle
    /\ updating_url' = FALSE
    /\ reset_tasks' = reset_tasks - 1
    /\ params' = Settled(params)
    /\ last' = Observed("reset", "none", "none", 0, "none")
    /\ UNCHANGED << url, parsing_url, last_parsed_url, url_subs, effects, pure, app, header_editor, body_editor >>

(***************************************************************************)
(* The application loads a request into the editor (src/src/app.rs).       *)
(***************************************************************************)
\* create_new_tab, close_tab, open_history_in_new_tab: load_request alone.
LoadRequest(u) ==
    /\ Idle
    /\ Len(parse_query_params(u)) < MaxRows
    /\ SetEditor(load_request(Editor, u))
    /\ last' = Observed("load_request", "none", "app", 0,
                        ParseOutcome([Editor EXCEPT !.url = u]))
    /\ UNCHANGED << pure, app, header_editor, body_editor >>

\* switch_to_tab to a tab with saved params: load_request, load_params_state.
LoadTab(u, state) ==
    /\ Idle
    /\ Len(parse_query_params(u)) < MaxRows
    /\ Len(state) < MaxRows
    /\ SetEditor(load_params_state(load_request(Editor, u), state))
    /\ last' = Observed("load_params_state", "none", "app", 0, "none")
    /\ UNCHANGED << pure, app, header_editor, body_editor >>

(***************************************************************************)
(* Specifications.                                                         *)
(***************************************************************************)
RowEdit ==
    \/ \E i \in 1..MaxRows, k \in KeyTexts : KeyEdit(i, k)
    \/ \E i \in 1..MaxRows, v \in ValueTexts : ValueEdit(i, v)
    \/ \E index \in 0..(MaxRows - 1) : ToggleParam(index)
    \/ \E index \in 0..(MaxRows - 1) : RemoveParam(index)

UserEdit(urls) ==
    \/ \E u \in urls : UrlEdit(u)
    \/ RowEdit

Load ==
    \/ \E u \in LoadUrls : LoadRequest(u)
    \/ \E u \in LoadUrls, state \in ParamStates : LoadTab(u, state)

\* Nothing is pending: no event to dispatch, no task to run, no guard set.
AtRest == effects = << >> /\ reset_tasks = 0 /\ ~updating_url /\ ~parsing_url

\* The editor under user edits alone; an edit may arrive before the task
\* that clears updating_url has run.
NextEdit ==
    \/ UserEdit(UrlTexts)
    \/ Deliver
    \/ ResetUpdatingUrl

SpecEdit == Init /\ [][NextEdit]_vars

\* The editor under user edits that arrive only when it is at rest.
NextSettled ==
    \/ (AtRest /\ UserEdit(FewUrls))
    \/ Deliver
    \/ ResetUpdatingUrl

SpecSettled == Init /\ [][NextSettled]_vars

\* The text from the first '?' on; empty when there is none.
QueryPart(u) == IF Find(u, QM) = 0 THEN << >> ELSE Suffix(u, Find(u, QM))

BaseTexts == { << Ch.s, COLON >>, << Ch.h, COLON >>, << Ch.h >> }

\* The user replaces the part of the URL text before the first '?'.
BaseEdit(base) ==
    /\ base # extract_base_url(url)
    /\ UrlEdit(base \o QueryPart(url))

\* The editor at rest under row edits and URL edits that change the base
\* alone.
NextBase ==
    \/ (AtRest /\ \E base \in BaseTexts : BaseEdit(base))
    \/ (AtRest /\ RowEdit)
    \/ Deliver
    \/ ResetUpdatingUrl

SpecBase == Init /\ [][NextBase]_vars

\* The main loop dispatches every pending event and runs every spawned task:
\* weak fairness of Deliver and of ResetUpdatingUrl.  Deliver is enabled
\* exactly when an event is pending and every Deliver step changes effects,
\* so WF_vars(Deliver) is written with ENABLED <<Deliver>>_vars replaced by
\* that guard.
DeliverFairness == []<>(effects = << >>) \/ []<><<Deliver>>_vars

LiveSettled == SpecSettled /\ DeliverFairness /\ WF_vars(ResetUpdatingUrl)

\* The editor under user edits and loads.
Next ==
    \/ UserEdit(FewUrls)
    \/ Deliver
    \/ ResetUpdatingUrl
    \/ Load

Spec == Init /\ [][Next]_vars

\* The behaviours of Spec in which the URL field is edited and requests are
\* loaded only when the editor is at rest; an edit of a row may still arrive
\* before the task that clears updating_url has run.
NextLoad ==
    \/ RowEdit
    \/ (AtRest /\ \E u \in LoadUrls : UrlEdit(u))
    \/ Deliver
    \/ ResetUpdatingUrl
    \/ (AtRest /\ Load)

SpecLoad == Init /\ [][NextLoad]_vars

\* The editor under user edits and loads that arrive only when it is at
\* rest, with the main loop dispatching every event and running every task.
NextTabs ==
    \/ (AtRest /\ UserEdit(FewUrls))
    \/ (AtRest /\ Load)
    \/ Deliver
    \/ ResetUpdatingUrl

SpecTabs == Init /\ [][NextTabs]_vars

LiveTabs == SpecTabs /\ DeliverFairness /\ WF_vars(ResetUpdatingUrl)

(***************************************************************************)
(* The pure functions of src/src/url_params.rs on bounded arguments.       *)
(***************************************************************************)
PureBases ==
    { EmptyStr,
      << Ch.h >>,
      << Ch.s, COLON >>,
      << Ch.s, COLON, Ch.h >>,
      << Ch.s, COLON, QM >>,
      << Ch.h, QM, Ch.a >>,
      << Ch.s, COLON, HASH, Ch.h >>,
      << Ch.h, HASH >> }

PureKeys == { EmptyStr, << Ch.a >>, << AMP >>, << QM >> }
PureValues == { EmptyStr, << Ch.b >>, << PLUS >>, << PCT, Ch.two, Ch.six >> }
PureParams == { QueryParam(k, v, en) : k \in PureKeys, v \in PureValues, en \in BOOLEAN }

\* The lists of at most n elements of S.
ListsUpTo(S, n) == UNION { [1..m -> S] : m \in 0..n }

InitPure ==
    /\ InitEditor
    /\ app = NewApp
    /\ header_editor = NewHeaderEditor
    /\ body_editor = NewBodyEditor
    /\ last = Observed("new", "none", "none", 0, "none")
    /\ pure \in { [stage |-> "args", base |-> b, params |-> ps] :
                    b \in PureBases, ps \in ListsUpTo(PureParams, MaxPairs) }

\* parse_query_params(build_url_with_params(base, params))
RoundTrip ==
    /\ pure.stage = "args"
    /\ LET built == build_url_with_params(pure.base, pure.params)
       IN  pure' = [stage |-> "round_trip", base |-> pure.base, params |-> pure.params,
                    built |-> built, parsed |-> parse_query_params(built)]
    /\ UNCHANGED << editorVars, last, app, header_editor, body_editor >>

\* An editor at rest whose URL text is u and whose rows are ps.
EditorOf(u, ps) ==
    [url |-> u,
     params |-> [i \in 1..Len(ps) |-> ParamRow(i, ps[i].key, ps[i].value, ps[i].enabled, "auto")],
     updating_url |-> FALSE, parsing_url |-> FALSE, last_parsed_url |-> EmptyStr,
     url_subs |-> 1, effects |-> << >>, reset_tasks |-> 0, next_id |-> Len(ps) + 1]

\* sync_params_to_url on the editor whose URL text is pure.base and whose
\* rows are pure.params.
SyncOnce ==
    /\ pure.stage = "args"
    /\ LET e == sync_params_to_url(EditorOf(pure.base, pure.params))
       IN  pure' = [stage |-> "sync", base |-> pure.base, params |-> pure.params,
                    url_after |-> e.url, updating_url |-> e.updating_url]
    /\ UNCHANGED << editorVars, last, app, header_editor, body_editor >>

NextPure ==
    \/ RoundTrip
    \/ SyncOnce

SpecPure == InitPure /\ [][NextPure]_vars

(***************************************************************************)
(* extract_base_url and parse_query_params on bounded texts: every text    *)
(* made of at most MaxLen pieces.                                          *)
(***************************************************************************)
TextPieces ==
    { << Ch.a >>, << QM >>, << AMP >>, << EQ >>,
      << Ch.s, COLON >>,
      << PCT, Ch.two, Ch.six >>,
      << PCT, Ch.F, Ch.F >> }

RECURSIVE Flatten(_)
Flatten(parts) == IF parts = << >> THEN << >> ELSE Head(parts) \o Flatten(Tail(parts))

PureTexts == { Flatten(parts) : parts \in ListsUpTo(TextPieces, MaxLen) }

InitText ==
    /\ InitEditor
    /\ app = NewApp
    /\ header_editor = NewHeaderEditor
    /\ body_editor = NewBodyEditor
    /\ last = Observed("new", "none", "none", 0, "none")
    /\ pure \in { [stage |-> "text", text |-> t] : t \in PureTexts }

\* extract_base_url(text) and parse_query_params(text)
ParseText ==
    /\ pure.stage = "text"
    /\ pure' = [stage |-> "parsed", text |-> pure.text,
                base |-> extract_base_url(pure.text),
                parsed |-> parse_query_params(pure.text),
                new_params |-> NewParams(pure.text)]
    /\ UNCHANGED << editorVars, last, app, header_editor, body_editor >>

NextText == ParseText

SpecText == InitText /\ [][NextText]_vars

(***************************************************************************)
(* params_equal on bounded lists of (key, value).                          *)
(***************************************************************************)
PurePairs ==
    { << EmptyStr, EmptyStr >>, << << Ch.a >>, EmptyStr >>, << EmptyStr, << Ch.b >> >> }

PurePairLists == ListsUpTo(PurePairs, MaxPairs)

InitEqual ==
    /\ InitEditor
    /\ app = NewApp
    /\ header_editor = NewHeaderEditor
    /\ body_editor = NewBodyEditor
    /\ last = Observed("new", "none", "none", 0, "none")
    /\ pure \in { [stage |-> "lists", a |-> a, b |-> b, c |-> c] :
                    a \in PurePairLists, b \in PurePairLists, c \in PurePairLists }

\* params_equal on the lists, two by two.
CompareParams ==
    /\ pure.stage = "lists"
    /\ pure' = [stage |-> "compared", a |-> pure.a, b |-> pure.b, c |-> pure.c,
                aa |-> params_equal(pure.a, pure.a),
                ab |-> params_equal(pure.a, pure.b),
                ba |-> params_equal(pure.b, pure.a),
                bc |-> params_equal(pure.b, pure.c),
                ac |-> params_equal(pure.a, pure.c)]
    /\ UNCHANGED << editorVars, last, app, header_editor, body_editor >>

NextEqual == CompareParams

SpecEqual == InitEqual /\ [][NextEqual]_vars

(***************************************************************************)
(* src/src/code_formatter.rs                                               *)
(*                                                                         *)
(* serde_json::from_str::<Value> and serde_json::to_string_pretty, for     *)
(* texts made of the characters { } [ ] : , of whitespace and of strings   *)
(* without escapes: a value is a string, an array or an object.            *)
(***************************************************************************)
\* char::is_whitespace, for ASCII: what str::trim removes.
IsWhitespace(c) == c \in {9, 10, 11, 12, 13, 32}

\* input.trim().is_empty()
IsBlank(input) == \A i \in 1..Len(input) : IsWhitespace(input[i])

\* The whitespace of JSON.
IsJsonWs(c) == c \in {9, 10, 13, 32}

RECURSIVE SkipWs(_, _)
SkipWs(s, i) == IF i <= Len(s) /\ IsJsonWs(s[i]) THEN SkipWs(s, i + 1) ELSE i

JsonString(text) == [t |-> "string", text |-> text]
JsonArray(items) == [t |-> "array", items |-> items]
JsonObject(members) == [t |-> "object", members |-> members]

ParseFailed == [ok |-> FALSE]
Parsed(v, next) == [ok |-> TRUE, v |-> v, next |-> next]

\* The string that opens at s[i]: the text up to the next quote.
ParseString(s, i) ==
    LET j == FindFrom(s, QUOTE, i + 1)
    IN  IF j = 0 THEN ParseFailed ELSE Parsed(SubSeq(s, i + 1, j - 1), j + 1)

\* Map::insert: the value of a key that is there is replaced.
InsertMember(members, key, v) ==
    IF \E i \in 1..Len(members) : members[i].key = key
    THEN [i \in 1..Len(members) |->
            IF members[i].key = key THEN [key |-> key, value |-> v] ELSE members[i]]
    ELSE Append(members, [key |-> key, value |-> v])

RECURSIVE ParseValue(_, _)
RECURSIVE ParseElements(_, _, _)
RECURSIVE ParseMembers(_, _, _)

\* The elements of an array after '[' or ',': a value, then ',' or ']'.
ParseElements(s, i, acc) ==
    LET r == ParseValue(s, i)
        k == SkipWs(s, r.next)
    IN  IF ~r.ok THEN ParseFailed
        ELSE IF k > Len(s) THEN ParseFailed
        ELSE IF s[k] = COMMA THEN ParseElements(s, k + 1, Append(acc, r.v))
        ELSE IF s[k] = RBRACKET THEN Parsed(JsonArray(Append(acc, r.v)), k + 1)
        ELSE ParseFailed

\* The members of an object after '{' or ',': a string key, ':', a value,
\* then ',' or '}'.
ParseMembers(s, i, acc) ==
    LET k == SkipWs(s, i)
        key == ParseString(s, k)
        c == SkipWs(s, key.next)
        r == ParseValue(s, c + 1)
        d == SkipWs(s, r.next)
    IN  IF k > Len(s) \/ s[k] # QUOTE THEN ParseFailed
        ELSE IF ~key.ok THEN ParseFailed
        ELSE IF c > Len(s) \/ s[c] # COLON THEN ParseFailed
        ELSE IF ~r.ok THEN ParseFailed
        ELSE IF d > Len(s) THEN ParseFailed
        ELSE IF s[d] = COMMA THEN ParseMembers(s, d + 1, InsertMember(acc, key.v, r.v))
        ELSE IF s[d] = RBRACE
             THEN Parsed(JsonObject(InsertMember(acc, key.v, r.v)), d + 1)
        ELSE ParseFailed

ParseValue(s, i) ==
    LET j == SkipWs(s, i)
        k == SkipWs(s, j + 1)
    IN  IF j > Len(s) THEN ParseFailed
        ELSE IF s[j] = QUOTE
             THEN LET r == ParseString(s, j)
                  IN  IF r.ok THEN Parsed(JsonString(r.v), r.next) ELSE ParseFailed
        ELSE IF s[j] = LBRACKET
             THEN IF k <= Len(s) /\ s[k] = RBRACKET THEN Parsed(JsonArray(<< >>), k + 1)
                  ELSE ParseElements(s, k, << >>)
        ELSE IF s[j] = LBRACE
             THEN IF k <= Len(s) /\ s[k] = RBRACE THEN Parsed(JsonObject(<< >>), k + 1)
                  ELSE ParseMembers(s, k, << >>)
        ELSE ParseFailed

\* A parse that stops after the first value and does not look at the rest.
JsonPrefixFromStr(input) ==
    LET r == ParseValue(input, 1)
    IN  IF r.ok THEN Parsed(r.v, r.next) ELSE ParseFailed

\* serde_json::from_str::<Value>: one value, then whitespace to the end.
JsonFromStr(input) ==
    LET r == ParseValue(input, 1)
    IN  IF r.ok /\ SkipWs(input, r.next) > Len(input) THEN r ELSE ParseFailed

Indent(level) == [i \in 1..(2 * level) |-> SPACE]

\* A string written without its quotes.
PrettyStringBare(text) == text

PrettyString(text) == << QUOTE >> \o text \o << QUOTE >>

RECURSIVE Pretty(_, _)
RECURSIVE PrettyItems(_, _, _)
RECURSIVE PrettyMembers(_, _, _)

\* The items of a non-empty array: each on a line of its own.
PrettyItems(items, level, first) ==
    IF items = << >> THEN << >>
    ELSE (IF first THEN << NEWLINE >> ELSE << COMMA, NEWLINE >>)
         \o Indent(level) \o Pretty(Head(items), level)
         \o PrettyItems(Tail(items), level, FALSE)

PrettyMembers(members, level, first) ==
    IF members = << >> THEN << >>
    ELSE (IF first THEN << NEWLINE >> ELSE << COMMA, NEWLINE >>)
         \o Indent(level) \o PrettyString(Head(members).key) \o << COLON, SPACE >>
         \o Pretty(Head(members).value, level)
         \o PrettyMembers(Tail(members), level, FALSE)

\* serde_json's PrettyFormatter with an indent of two spaces; level is the
\* depth of v.
Pretty(v, level) ==
    IF v.t = "string" THEN PrettyString(v.text)
    ELSE IF v.t = "array"
         THEN IF v.items = << >> THEN << LBRACKET, RBRACKET >>
              ELSE << LBRACKET >> \o PrettyItems(v.items, level + 1, TRUE)
                   \o << NEWLINE >> \o Indent(level) \o << RBRACKET >>
    ELSE IF v.members = << >> THEN << LBRACE, RBRACE >>
         ELSE << LBRACE >> \o PrettyMembers(v.members, level + 1, TRUE)
              \o << NEWLINE >> \o Indent(level) \o << RBRACE >>

Ok(out) == [ok |-> TRUE, out |-> out, err |-> "none"]
Err(kind) == [ok |-> FALSE, out |-> << >>, err |-> kind]

\* A format_json that parses whatever it is given.
FormatJsonUnchecked(input) ==
    LET r == JsonFromStr(input)
    IN  IF ~r.ok THEN Err("JSON parse error") ELSE Ok(Pretty(r.v, 0))

format_json(input) ==
    IF IsBlank(input) THEN Err("Empty input")
    ELSE LET r == JsonFromStr(input)
         IN  IF ~r.ok THEN Err("JSON parse error") ELSE Ok(Pretty(r.v, 0))

\* A validate_json that accepts a text that starts with a value.
ValidateJsonPrefix(input) ==
    IF IsBlank(input) THEN Ok(<< >>)
    ELSE IF JsonPrefixFromStr(input).ok THEN Ok(<< >>) ELSE Err("Invalid JSON")

validate_json(input) ==
    IF IsBlank(input) THEN Ok(<< >>)
    ELSE IF JsonFromStr(input).ok THEN Ok(<< >>) ELSE Err("Invalid JSON")

\* validate_xml; reader_ok tells whether quick_xml's reader reaches Eof
\* without an error on this input.
validate_xml(input, reader_ok) ==
    IF IsBlank(input) THEN Ok(<< >>)
    ELSE IF reader_ok THEN Ok(<< >>) ELSE Err("Invalid XML")

\* format_xml, as far as its result is Ok or Err: the second pass reads
\* the same input with the same reader, and writing to a Vec does not fail.
format_xml(input, reader_ok) ==
    IF IsBlank(input) THEN Err("Empty input")
    ELSE IF ~validate_xml(input, reader_ok).ok THEN validate_xml(input, reader_ok)
    ELSE Ok(<< >>)

JsonPieces ==
    { << LBRACE >>, << RBRACE >>, << LBRACKET >>, << RBRACKET >>,
      << COLON >>, << COMMA >>, << SPACE >>,
      << QUOTE, Ch.a, QUOTE >> }

\* The texts of at most MaxJson pieces.
JsonTexts == { Flatten(parts) : parts \in ListsUpTo(JsonPieces, MaxJson) }

XmlPieces == { << SPACE >>, << NEWLINE >>, << 60, Ch.a, 47, 62 >> }

XmlTexts == { Flatten(parts) : parts \in ListsUpTo(XmlPieces, MaxJson) }

\* format_json and validate_json on one text, and format_json on its own
\* output.
FormatText(input) ==
    /\ pure.stage = "idle"
    /\ LET formatted == format_json(input)
       IN  pure' = [stage |-> "formatted", input |-> input,
                    format_json |-> formatted,
                    validate_json |-> validate_json(input),
                    again |-> IF formatted.ok THEN format_json(formatted.out) ELSE formatted]
    /\ UNCHANGED << editorVars, last, app, header_editor, body_editor >>

\* format_xml and validate_xml on one text.
FormatXml(input, reader_ok) ==
    /\ pure.stage = "idle"
    /\ pure' = [stage |-> "xml", input |-> input,
                format_xml |-> format_xml(input, reader_ok),
                validate_xml |-> validate_xml(input, reader_ok)]
    /\ UNCHANGED << editorVars, last, app, header_editor, body_editor >>

NextFormat ==
    \/ (pure.stage = "idle" /\ \E input \in JsonTexts : FormatText(input))
    \/ (pure.stage = "idle"
          /\ \E input \in XmlTexts, reader_ok \in BOOLEAN : FormatXml(input, reader_ok))

SpecFormat == Init /\ [][NextFormat]_vars

(***************************************************************************)
(* src/src/types.rs: ResponseData.                                         *)
(***************************************************************************)
U16Max == 65535

\* Option<u16>
NoStatus == [some |-> FALSE, value |-> 0]
Status(n) == [some |-> TRUE, value |-> n]
Statuses == { NoStatus } \cup { Status(n) : n \in 0..U16Max }

\* An is_success that takes 300 for a success.
IsSuccessThrough300(status) ==
    IF status.some THEN status.value >= 200 /\ status.value <= 300 ELSE FALSE

is_success(status) ==
    IF status.some THEN status.value >= 200 /\ status.value < 300 ELSE FALSE

is_error(status) ==
    IF status.some THEN status.value >= 400 ELSE TRUE

is_network_error(status) == ~status.some

\* The three predicates on a response with this status.
Classify(status) ==
    /\ pure.stage = "idle"
    /\ pure' = [stage |-> "response", status |-> status,
                is_success |-> is_success(status),
                is_error |-> is_error(status),
                is_network_error |-> is_network_error(status)]
    /\ UNCHANGED << editorVars, last, app, header_editor, body_editor >>

NextResponse == pure.stage = "idle" /\ \E status \in Statuses : Classify(status)

SpecResponse == Init /\ [][NextResponse]_vars

(***************************************************************************)
(* src/src/request_editor.rs: the headers of a sent request.               *)
(***************************************************************************)
AsciiLower(c) == IF c >= 65 /\ c <= 90 THEN c + 32 ELSE c

\* A comparison that tells upper case from lower case.
EqExactCase(s1, s2) == s1 = s2

\* str::eq_ignore_ascii_case
EqIgnoreAsciiCase(s1, s2) ==
    /\ Len(s1) = Len(s2)
    /\ \A i \in 1..Len(s1) : AsciiLower(s1[i]) = AsciiLower(s2[i])

\* "Content-Type"
ContentTypeName == << 67, 111, 110, 116, 101, 110, 116, 45, 84, 121, 112, 101 >>

\* RawSubtype::content_type
content_type(subtype) ==
    CASE subtype = "Json" -> << 97, 112, 112, 108, 105, 99, 97, 116, 105, 111, 110, 47, 106, 115, 111, 110 >>              \* application/json
      [] subtype = "Xml" -> << 97, 112, 112, 108, 105, 99, 97, 116, 105, 111, 110, 47, 120, 109, 108 >>                \* application/xml
      [] subtype = "Text" -> << 116, 101, 120, 116, 47, 112, 108, 97, 105, 110 >>              \* text/plain
      [] subtype = "JavaScript" -> << 97, 112, 112, 108, 105, 99, 97, 116, 105, 111, 110, 47, 106, 97, 118, 97, 115, 99, 114, 105, 112, 116 >>          \* application/javascript

RawSubtypes == { "Json", "Xml", "Text", "JavaScript" }

\* BodyType
BodyNone == [t |-> "None"]
BodyRaw(content, subtype) == [t |-> "Raw", content |-> content, subtype |-> subtype]
BodyFormData(rows) == [t |-> "FormData", rows |-> rows]

HeaderRow(enabled, key, value) == [enabled |-> enabled, key |-> key, value |-> value]

\* Lines 814-823 of send_request: the enabled rows with a key and a value.
EnabledHeaders(rows) ==
    LET kept == SelectSeq(rows, LAMBDA r : r.enabled /\ r.key # << >> /\ r.value # << >>)
    IN  [i \in 1..Len(kept) |-> << kept[i].key, kept[i].value >>]

\* Lines 814-838 of send_request: the headers of the request.
RequestHeaders(rows, body) ==
    LET headers == EnabledHeaders(rows)
        has_content_type ==
            \E i \in 1..Len(headers) : EqIgnoreAsciiCase(headers[i][1], ContentTypeName)
    IN  IF ~has_content_type /\ body.t = "Raw"
        THEN Append(headers, << ContentTypeName, content_type(body.subtype) >>)
        ELSE headers

HeaderKeys == { EmptyStr, << Ch.a >>, ContentTypeName, << 99, 111, 110, 116, 101, 110, 116, 45, 116, 121, 112, 101 >> }    \* "content-type"
HeaderValues == { EmptyStr, << Ch.b >> }
HeaderRows == { HeaderRow(en, k, v) : en \in BOOLEAN, k \in HeaderKeys, v \in HeaderValues }
Bodies ==
    { BodyNone, BodyFormData(<< >>) } \cup { BodyRaw(<< >>, subtype) : subtype \in RawSubtypes }

\* The headers that send_request builds from these rows and this body.
BuildHeaders(rows, body) ==
    /\ pure.stage = "idle"
    /\ pure' = [stage |-> "headers", rows |-> rows, body |-> body,
                headers |-> RequestHeaders(rows, body)]
    /\ UNCHANGED << editorVars, last, app, header_editor, body_editor >>

NextHeaders ==
    pure.stage = "idle"
    /\ \E rows \in ListsUpTo(HeaderRows, MaxPairs), body \in Bodies : BuildHeaders(rows, body)

SpecHeaders == Init /\ [][NextHeaders]_vars

(***************************************************************************)
(* src/src/request_editor.rs and src/src/app.rs: sending a request, the    *)
(* RequestCompleted subscription and the tabs.  A tab is addressed by its  *)
(* index from 0, as in the code.                                           *)
(***************************************************************************)
MaxSends == 2
MaxTabs == 2
MaxTabIds == 3

\* The bytes http::Uri takes: the visible ASCII characters but " < > \ ^ ` { | }
IsUriChar(c) == c > 32 /\ c < 127 /\ c \notin {34, 60, 62, 92, 94, 96, 123, 124, 125}

\* http::Request::builder().uri(&url) takes the text, for a text without
\* ':' '/' '?' '#' '@' '[': such a text is an authority when all its bytes
\* are bytes of a URI.
UriOk(u) == u # << >> /\ \A i \in 1..Len(u) : IsUriChar(u[i])

\* A builder that takes every text.
UriAlwaysOk(u) == TRUE

\* request_builder.body(..) is Ok
BuilderOk(u) == UriOk(u)

\* ResponseData of a failed send
ErrorResponse(e) ==
    [status |-> NoStatus, headers |-> << >>, body |-> << "Request failed: ", e >>]

\* ResponseData of an answered send
ServerResponse(r) == [status |-> Status(r.status), headers |-> r.headers, body |-> r.body]

\* What HttpClient::send returns.
TransportOutcomes ==
    { [ok |-> TRUE, status |-> 200, headers |-> << << "server", "s" >> >>, body |-> "{}"],
      [ok |-> FALSE, error |-> "timed out"] }

SendUrls == { << Ch.a >>, << Ch.a, SPACE, Ch.a >> }

ActiveTab(a) == a.tabs[a.active + 1]

SetTab(tabs, index, tab) == [tabs EXCEPT ![index + 1] = tab]

\* PoopmanApp::save_current_tab_state
save_current_tab_state(a) ==
    [a EXCEPT !.tabs = SetTab(a.tabs, a.active,
        [ActiveTab(a) EXCEPT !.request = a.request, !.response = a.viewer])]

\* editor.load_request and viewer.set_response or clear_response for a tab
LoadIntoEditor(a, tab) == [a EXCEPT !.request = tab.request, !.viewer = tab.response]

\* PoopmanApp::switch_to_tab
switch_to_tab(a, index) ==
    IF index >= Len(a.tabs) \/ index = a.active THEN a
    ELSE LET saved == save_current_tab_state(a)
         IN  LoadIntoEditor([saved EXCEPT !.active = index], saved.tabs[index + 1])

PushTab(a, tab) ==
    LoadIntoEditor(
        [a EXCEPT !.tabs = Append(a.tabs, tab), !.next_tab_id = a.next_tab_id + 1,
                  !.active = Len(a.tabs)],
        tab)

\* PoopmanApp::create_new_tab
create_new_tab(a) == PushTab(save_current_tab_state(a), new_empty(a.next_tab_id))

\* A close that removes the tab and leaves active_tab_index as it is.
CloseKeepsActive(a, index) ==
    IF Len(a.tabs) <= 1
    THEN LoadIntoEditor(
             [a EXCEPT !.tabs = << new_empty(a.next_tab_id) >>,
                       !.next_tab_id = a.next_tab_id + 1, !.active = 0],
             new_empty(a.next_tab_id))
    ELSE [a EXCEPT !.tabs = RemoveAt(a.tabs, index)]

\* PoopmanApp::close_tab
close_tab(a, index) ==
    IF Len(a.tabs) <= 1
    THEN LoadIntoEditor(
             [a EXCEPT !.tabs = << new_empty(a.next_tab_id) >>,
                       !.next_tab_id = a.next_tab_id + 1, !.active = 0],
             new_empty(a.next_tab_id))
    ELSE LET tabs == RemoveAt(a.tabs, index)
             removed == [a EXCEPT !.tabs = tabs]
             active == IF a.active >= Len(tabs) THEN Len(tabs) - 1 ELSE a.active
         IN  IF index < a.active THEN [removed EXCEPT !.active = a.active - 1]
             ELSE IF index = a.active
                  THEN LoadIntoEditor([removed EXCEPT !.active = active], tabs[active + 1])
             ELSE removed

\* A search that finds no tab.
NotOpen(tabs, history_id) == -1

\* The position of the tab that shows this history item, from 0; -1 for None.
PositionOf(tabs, history_id) ==
    IF \E i \in 1..Len(tabs) : tabs[i].history_id = history_id
    THEN (CHOOSE i \in 1..Len(tabs) :
            /\ tabs[i].history_id = history_id
            /\ \A j \in 1..(i - 1) : tabs[j].history_id # history_id) - 1
    ELSE -1

\* PoopmanApp::open_history_in_new_tab
open_history_in_new_tab(a, item) ==
    IF PositionOf(a.tabs, item.id) >= 0
    THEN switch_to_tab(a, PositionOf(a.tabs, item.id))
    ELSE PushTab(save_current_tab_state(a), from_history(a.next_tab_id, item))

\* The handler that an event of the kind RequestCompleted lets run in the
\* application: whether the row is written depends on the tab that is
\* active now.
OnRequestCompleted(a, event) ==
    LET is_from_history == ActiveTab(a).history_id # 0
        row == [id |-> Len(a.history) + 1, request |-> event.request,
                response |-> NoResponse, send |-> event.send]
        inserted == IF is_from_history THEN a ELSE [a EXCEPT !.history = Append(a.history, row)]
    IN  [inserted EXCEPT
            !.viewer = event.response,
            !.tabs = SetTab(a.tabs, a.active,
                [ActiveTab(a) EXCEPT !.request = event.request, !.response = event.response])]

AppFrame == UNCHANGED << editorVars, last, pure, header_editor, body_editor >>

\* The user types a URL.
EditRequest(u) ==
    /\ ~app.crashed
    /\ u # app.request
    /\ app' = [app EXCEPT !.request = u]
    /\ AppFrame

\* RequestEditor::send_request up to the spawn.  The button is disabled
\* while loading.  A task keeps, next to the URL, the id of the tab it was
\* sent from and whether that tab was opened from history: the code keeps
\* neither.
SendRequest ==
    /\ ~app.crashed
    /\ ~app.loading
    /\ app.sends < MaxSends
    /\ app.request # EmptyStr
    /\ app' = [app EXCEPT
                 !.loading = TRUE,
                 !.sends = app.sends + 1,
                 !.tasks = Append(app.tasks,
                     [send |-> app.sends + 1, url |-> app.request,
                      tab |-> ActiveTab(app).id,
                      from_history |-> ActiveTab(app).history_id # 0])]
    /\ AppFrame

\* The task spawned by send_request, with the handler of the application
\* that runs when the update that emitted the event ends.
RunTask(outcome) ==
    /\ ~app.crashed
    /\ app.tasks # << >>
    /\ LET task == Head(app.tasks)
           response == IF outcome.ok THEN ServerResponse(outcome)
                       ELSE ErrorResponse(outcome.error)
           event == [send |-> task.send, request |-> task.url, response |-> response,
                     transport_ok |-> outcome.ok]
           ended == [app EXCEPT !.tasks = Tail(app.tasks)]
       IN  IF ~BuilderOk(task.url)
           THEN app' = [ended EXCEPT !.crashed = TRUE]
           ELSE app' = OnRequestCompleted(
                    [ended EXCEPT !.loading = FALSE,
                                  !.completed = Append(app.completed, event)],
                    event)
    /\ AppFrame

SwitchToTab(index) ==
    /\ ~app.crashed
    /\ index # app.active
    /\ app' = switch_to_tab(app, index)
    /\ AppFrame

CreateNewTab ==
    /\ ~app.crashed
    /\ Len(app.tabs) < MaxTabs
    /\ app.next_tab_id < MaxTabIds
    /\ app' = create_new_tab(app)
    /\ AppFrame

CloseTab(index) ==
    /\ ~app.crashed
    /\ app.next_tab_id < MaxTabIds
    /\ app' = close_tab(app, index)
    /\ AppFrame

OpenHistory(item) ==
    /\ ~app.crashed
    /\ PositionOf(app.tabs, item.id) # app.active
    /\ PositionOf(app.tabs, item.id) < 0
          => (Len(app.tabs) < MaxTabs /\ app.next_tab_id < MaxTabIds)
    /\ app' = open_history_in_new_tab(app, item)
    /\ AppFrame

NextApp ==
    \/ \E u \in SendUrls : EditRequest(u)
    \/ SendRequest
    \/ \E outcome \in TransportOutcomes : RunTask(outcome)
    \/ \E index \in 0..(Len(app.tabs) - 1) : SwitchToTab(index)
    \/ CreateNewTab
    \/ \E index \in 0..(Len(app.tabs) - 1) : CloseTab(index)
    \/ \E item \in { app.history[i] : i \in 1..Len(app.history) } : OpenHistory(item)

SpecApp == Init /\ [][NextApp]_vars

(***************************************************************************)
(* src/src/db.rs: load_recent_history.  A stored row is a row written by   *)
(* insert_history: its method, url, request_headers and request_body are   *)
(* texts.  The texts of the typed values are JSON texts of strings, arrays *)
(* and objects without a repeated key.                                     *)
(***************************************************************************)
AsciiUpper(c) == IF c >= 97 /\ c <= 122 THEN c - 32 ELSE c

\* str::to_uppercase, for ASCII
ToUpper(t) == [i \in 1..Len(t) |-> AsciiUpper(t[i])]

HttpMethods == { "GET", "POST", "PUT", "DELETE", "PATCH", "HEAD", "OPTIONS" }

\* HttpMethod::as_str
as_str(m) ==
    CASE m = "GET" -> << 71, 69, 84 >>
      [] m = "POST" -> << 80, 79, 83, 84 >>
      [] m = "PUT" -> << 80, 85, 84 >>
      [] m = "DELETE" -> << 68, 69, 76, 69, 84, 69 >>
      [] m = "PATCH" -> << 80, 65, 84, 67, 72 >>
      [] m = "HEAD" -> << 72, 69, 65, 68 >>
      [] m = "OPTIONS" -> << 79, 80, 84, 73, 79, 78, 83 >>

Some(v) == [some |-> TRUE, value |-> v]
None == [some |-> FALSE]

\* HttpMethod::from_str
HttpMethodFromStr(t) ==
    IF \E m \in HttpMethods : as_str(m) = ToUpper(t)
    THEN Some(CHOOSE m \in HttpMethods : as_str(m) = ToUpper(t))
    ELSE None

UnwrapOr(option, default) == IF option.some THEN option.value ELSE default

\* The names of the variants and fields in the JSON of BodyType.
NameNone == << 78, 111, 110, 101 >>
NameRaw == << 82, 97, 119 >>
NameFormData == << 70, 111, 114, 109, 68, 97, 116, 97 >>
NameContent == << 99, 111, 110, 116, 101, 110, 116 >>
NameSubtype == << 115, 117, 98, 116, 121, 112, 101 >>

\* The name of a RawSubtype in JSON.
SubtypeName(subtype) ==
    CASE subtype = "Json" -> << 74, 115, 111, 110 >>
      [] subtype = "Xml" -> << 88, 109, 108 >>
      [] subtype = "Text" -> << 84, 101, 120, 116 >>
      [] subtype = "JavaScript" -> << 74, 97, 118, 97, 83, 99, 114, 105, 112, 116 >>

HasMember(v, key) == \E i \in 1..Len(v.members) : v.members[i].key = key

Member(v, key) ==
    v.members[CHOOSE i \in 1..Len(v.members) : v.members[i].key = key].value

\* Deserialize for RawSubtype: the name of a variant.
SubtypeFromJson(v) ==
    IF v.t = "string" /\ \E subtype \in RawSubtypes : SubtypeName(subtype) = v.text
    THEN Some(CHOOSE subtype \in RawSubtypes : SubtypeName(subtype) = v.text)
    ELSE None

\* Deserialize for the fields of BodyType::Raw: an object with the string
\* content and the subtype.
RawFromJson(v) ==
    IF /\ v.t = "object"
       /\ HasMember(v, NameContent) /\ Member(v, NameContent).t = "string"
       /\ HasMember(v, NameSubtype) /\ SubtypeFromJson(Member(v, NameSubtype)).some
    THEN Some(BodyRaw(Member(v, NameContent).text,
                      SubtypeFromJson(Member(v, NameSubtype)).value))
    ELSE None

\* Deserialize for BodyType: the string "None", or an object with one
\* member named after the variant.  The rows of FormData have a Boolean,
\* which these texts do not have: of FormData the empty list is read.
BodyTypeFromJson(v) ==
    IF v.t = "string" THEN (IF v.text = NameNone THEN Some(BodyNone) ELSE None)
    ELSE IF v.t = "object" /\ Len(v.members) = 1
         THEN IF v.members[1].key = NameRaw THEN RawFromJson(v.members[1].value)
              ELSE IF /\ v.members[1].key = NameFormData
                      /\ v.members[1].value = JsonArray(<< >>)
                   THEN Some(BodyFormData(<< >>))
              ELSE None
    ELSE None

\* serde_json::from_str::<BodyType>(..).ok()
BodyTypeFromStr(t) ==
    IF JsonFromStr(t).ok THEN BodyTypeFromJson(JsonFromStr(t).v) ELSE None

\* BodyType::default
DefaultBody == BodyRaw(<< >>, "Json")

IsStringPair(v) ==
    v.t = "array" /\ Len(v.items) = 2 /\ v.items[1].t = "string" /\ v.items[2].t = "string"

\* serde_json::from_str::<Vec<(String, String)>>(..).ok()
HeadersFromStr(t) ==
    LET r == JsonFromStr(t)
    IN  IF r.ok /\ r.v.t = "array" /\ \A i \in 1..Len(r.v.items) : IsStringPair(r.v.items[i])
        THEN Some([i \in 1..Len(r.v.items) |->
                      << r.v.items[i].items[1].text, r.v.items[i].items[2].text >>])
        ELSE None

\* The response of a row: there when the status and the duration are.
RowResponse(row) ==
    IF row.status_code.some /\ row.duration_ms.some
    THEN [status |-> Status(row.status_code.value), headers |-> << >>, body |-> << >>]
    ELSE NoResponse

\* A load that gives up on a row whose body text is not a BodyType.
LoadRowOrFail(row) ==
    IF BodyTypeFromStr(row.request_body).some
    THEN Ok([id |-> row.id,
             request |-> [method |-> UnwrapOr(HttpMethodFromStr(row.method), "GET"),
                          url |-> row.url,
                          headers |-> UnwrapOr(HeadersFromStr(row.request_headers), << >>),
                          body |-> BodyTypeFromStr(row.request_body).value],
             response |-> RowResponse(row)])
    ELSE Err("load")

\* The closure of query_map in load_recent_history, lines 108-150: the
\* HistoryItem of a row.
LoadRow(row) ==
    Ok([id |-> row.id,
        request |-> [method |-> UnwrapOr(HttpMethodFromStr(row.method), "GET"),
                     url |-> row.url,
                     headers |-> UnwrapOr(HeadersFromStr(row.request_headers), << >>),
                     body |-> UnwrapOr(BodyTypeFromStr(row.request_body), DefaultBody)],
        response |-> RowResponse(row)])

ValidBodyTexts ==
    { << 34, 78, 111, 110, 101, 34 >>,   \* "None"
      << 123, 34, 82, 97, 119, 34, 58, 123, 34, 99, 111, 110, 116, 101, 110, 116, 34, 58, 34, 97, 34, 44, 34, 115, 117, 98, 116, 121, 112, 101, 34, 58, 34, 88, 109, 108, 34, 125, 125 >>,   \* {"Raw":{"content":"a","subtype":"Xml"}}
      << 123, 34, 82, 97, 119, 34, 58, 123, 34, 115, 117, 98, 116, 121, 112, 101, 34, 58, 34, 84, 101, 120, 116, 34, 44, 34, 99, 111, 110, 116, 101, 110, 116, 34, 58, 34, 34, 125, 125 >>,   \* {"Raw":{"subtype":"Text","content":""}}
      << 32, 123, 34, 70, 111, 114, 109, 68, 97, 116, 97, 34, 58, 91, 93, 125, 32 >> }   \*  {"FormData":[]} 

InvalidBodyTexts ==
    { << >>,   \* (empty)
      << 97 >>,   \* a
      << 123, 34, 82, 97, 119, 34, 58, 123, 34, 99, 111, 110, 116, 101, 110, 116, 34, 58, 34, 97, 34, 125, 125 >>,   \* {"Raw":{"content":"a"}}
      << 123, 34, 82, 97, 119, 34, 58, 123, 34, 99, 111, 110, 116, 101, 110, 116, 34, 58, 34, 97, 34, 44, 34, 115, 117, 98, 116, 121, 112, 101, 34, 58, 34, 89, 97, 109, 108, 34, 125, 125 >>,   \* {"Raw":{"content":"a","subtype":"Yaml"}}
      << 34, 82, 97, 119, 34 >>,   \* "Raw"
      << 123, 34, 70, 111, 114, 109, 34, 58, 91, 93, 125 >>,   \* {"Form":[]}
      << 123, 34, 82, 97, 119, 34, 58, 123, 34, 99, 111, 110, 116, 101, 110, 116, 34, 58, 34, 97, 34, 44, 34, 115, 117, 98, 116, 121, 112, 101, 34, 58, 34, 88, 109, 108, 34, 125, 125, 125 >> }   \* {"Raw":{"content":"a","subtype":"Xml"}}}

ValidHeaderTexts ==
    { << 91, 93 >>,   \* []
      << 91, 91, 34, 97, 34, 44, 34, 98, 34, 93, 93 >>,   \* [["a","b"]]
      << 91, 91, 34, 97, 34, 44, 34, 98, 34, 93, 44, 91, 34, 97, 34, 44, 34, 34, 93, 93 >> }   \* [["a","b"],["a",""]]

InvalidHeaderTexts ==
    { << >>,   \* (empty)
      << 91, 91, 34, 97, 34, 93, 93 >>,   \* [["a"]]
      << 123, 34, 97, 34, 58, 34, 98, 34, 125 >>,   \* {"a":"b"}
      << 91, 91, 34, 97, 34, 44, 34, 98, 34, 93 >>,   \* [["a","b"]
      << 91, 34, 97, 34, 44, 34, 98, 34, 93 >> }   \* ["a","b"]

MethodTexts ==
    { << 71, 69, 84 >>,   \* GET
      << 112, 111, 115, 116 >>,   \* post
      << 68, 101, 108, 101, 116, 101 >>,   \* Delete
      << 79, 80, 84, 73, 79, 78, 83 >>,   \* OPTIONS
      << 70, 69, 84, 67, 72 >>,   \* FETCH
      << >> }   \* (empty)

StoredRows ==
    { [id |-> 1, method |-> m, url |-> << Ch.a >>, request_headers |-> h, request_body |-> bd,
       status_code |-> st, duration_ms |-> st] :
         m \in MethodTexts, h \in ValidHeaderTexts \cup InvalidHeaderTexts,
         bd \in ValidBodyTexts \cup InvalidBodyTexts, st \in { None, Some(200) } }

\* load_recent_history reads a row.
LoadHistoryRow(row) ==
    /\ pure.stage = "idle"
    /\ pure' = [stage |-> "loaded", row |-> row, result |-> LoadRow(row)]
    /\ UNCHANGED << editorVars, last, app, header_editor, body_editor >>

NextHistory == pure.stage = "idle" /\ \E row \in StoredRows : LoadHistoryRow(row)

SpecHistory == Init /\ [][NextHistory]_vars

(***************************************************************************)
(* src/src/body_editor.rs: the rows of a form-data body.  A row is         *)
(* addressed by its index from 0.                                          *)
(***************************************************************************)
\* FormDataValue::Text and FormDataValue::File
PlaceholderOf(value) == IF value.t = "File" THEN "File Path" ELSE "Value"

\* The rows and the placeholders of their value inputs, as set_body and
\* add_formdata_row leave them.
FormEditor(rows) ==
    [formdata_rows |-> rows,
     placeholders |-> [i \in 1..Len(rows) |-> PlaceholderOf(rows[i].value)]]

\* A toggle that takes the other kind with an empty payload.
ToggleTypeEmptied(be, index) ==
    IF index < Len(be.formdata_rows)
    THEN LET row == be.formdata_rows[index + 1]
             value == IF row.value.t = "Text" THEN FormFile(<< >>) ELSE FormText(<< >>)
         IN  [formdata_rows |-> [be.formdata_rows EXCEPT ![index + 1].value = value],
              placeholders |-> [be.placeholders EXCEPT ![index + 1] = PlaceholderOf(value)]]
    ELSE be

\* BodyEditor::toggle_formdata_type
toggle_formdata_type(be, index) ==
    IF index < Len(be.formdata_rows)
    THEN LET row == be.formdata_rows[index + 1]
             value == IF row.value.t = "Text" THEN FormFile(row.value.payload)
                      ELSE FormText(row.value.payload)
         IN  [formdata_rows |-> [be.formdata_rows EXCEPT ![index + 1].value = value],
              placeholders |-> [be.placeholders EXCEPT ![index + 1] = PlaceholderOf(value)]]
    ELSE be

FormValues == { FormText(EmptyStr), FormText(<< Ch.b >>), FormFile(EmptyStr), FormFile(<< Ch.b >>) }
FormRows ==
    { FormDataRow(en, k, v) : en \in BOOLEAN, k \in { EmptyStr, << Ch.a >> }, v \in FormValues }

\* The type of a row is toggled, and toggled again.
ToggleFormDataType(rows, index) ==
    /\ pure.stage = "idle"
    /\ pure' = [stage |-> "toggled", rows |-> rows, index |-> index,
                once |-> toggle_formdata_type(FormEditor(rows), index),
                twice |-> toggle_formdata_type(
                              toggle_formdata_type(FormEditor(rows), index), index)]
    /\ UNCHANGED << editorVars, last, app, header_editor, body_editor >>

NextForm ==
    pure.stage = "idle"
    /\ \E rows \in ListsUpTo(FormRows, MaxPairs), index \in 0..MaxPairs :
          ToggleFormDataType(rows, index)

SpecForm == Init /\ [][NextForm]_vars

(***************************************************************************)
(* src/src/request_editor.rs: the header rows.  A row is addressed by its  *)
(* index from 0.                                                           *)
(***************************************************************************)
\* The predefined header that a name matches, "None" when there is none.
PredefinedMatch(key) ==
    IF \E i \in 1..Len(PredefinedAll) : EqIgnoreAsciiCase(predefined_name(PredefinedAll[i]), key)
    THEN PredefinedAll[CHOOSE i \in 1..Len(PredefinedAll) :
            /\ EqIgnoreAsciiCase(predefined_name(PredefinedAll[i]), key)
            /\ \A j \in 1..(i - 1) : ~EqIgnoreAsciiCase(predefined_name(PredefinedAll[j]), key)]
    ELSE "None"

\* The first row of a predefined header takes the value and is enabled.
SetPredefined(headers, predefined, value) ==
    IF \E i \in 1..Len(headers) : headers[i].predefined = predefined
    THEN LET i == CHOOSE i \in 1..Len(headers) :
                     /\ headers[i].predefined = predefined
                     /\ \A j \in 1..(i - 1) : headers[j].predefined # predefined
         IN  [headers EXCEPT ![i].value = value, ![i].enabled = TRUE]
    ELSE headers

\* One header of the loaded request, lines 173-211 of load_request.
LoadHeader(headers, kv) ==
    IF PredefinedMatch(kv[1]) # "None"
    THEN SetPredefined(headers, PredefinedMatch(kv[1]), kv[2])
    ELSE Append(headers, EditorHeaderRow(TRUE, kv[1], kv[2], "Custom", "None"))

RECURSIVE LoadHeaders(_, _)
LoadHeaders(headers, request_headers) ==
    IF request_headers = << >> THEN headers
    ELSE LoadHeaders(LoadHeader(headers, Head(request_headers)), Tail(request_headers))

\* The header rows of RequestEditor::load_request, lines 160-214.
load_request_headers(request_headers) ==
    add_custom_header_row(LoadHeaders(init_predefined_headers(<< >>), request_headers))

\* A toggle that does not look at the type of the row.
ToggleAnyHeader(headers, index) ==
    IF index < Len(headers) THEN [headers EXCEPT ![index + 1].enabled = ~@] ELSE headers

\* RequestEditor::toggle_header
toggle_header(headers, index) ==
    IF index < Len(headers) /\ headers[index + 1].header_type # "Mandatory"
    THEN [headers EXCEPT ![index + 1].enabled = ~@]
    ELSE headers

HasCustom(headers) == \E i \in 1..Len(headers) : headers[i].header_type = "Custom"

\* RequestEditor::remove_header_row
remove_header_row(headers, index) ==
    IF index < Len(headers) /\ headers[index + 1].header_type = "Custom"
    THEN LET removed == RemoveAt(headers, index)
         IN  IF HasCustom(removed) THEN removed ELSE add_custom_header_row(removed)
    ELSE headers

\* RequestEditor::get_headers_state: every row, as it is.
get_headers_state(headers) == headers

\* RequestEditor::load_headers_state
load_headers_state(state) == IF HasCustom(state) THEN state ELSE add_custom_header_row(state)

\* The headers of the requests that are loaded.
AcceptLower == << 97, 99, 99, 101, 112, 116 >>    \* accept
RequestHeaderPairs ==
    { << predefined_name("Accept"), << Ch.a >> >>, << AcceptLower, << Ch.b >> >>,
      << << Ch.a >>, << Ch.b >> >> }

\* The rows that the user clicks on: the mandatory row, a predefined row
\* and the first custom rows.
FirstCustom == Len(PredefinedAll)
ToggledIndexes == { 0, 2 }
RemovedIndexes == { 0, FirstCustom }

HeaderFrame == UNCHANGED << editorVars, last, pure, app, body_editor >>

ToggleHeader(index) ==
    /\ index < Len(header_editor.headers)
    /\ header_editor' = [header_editor EXCEPT !.headers = toggle_header(@, index)]
    /\ HeaderFrame

RemoveHeaderRow(index) ==
    /\ index < Len(header_editor.headers)
    /\ header_editor' = [header_editor EXCEPT !.headers = remove_header_row(@, index)]
    /\ HeaderFrame

\* load_request, as far as the header rows go.
LoadRequestHeaders(request_headers) ==
    /\ header_editor' = [header_editor EXCEPT
                            !.headers = load_request_headers(request_headers),
                            !.request = request_headers]
    /\ HeaderFrame

\* save_current_tab_state keeps the state of the rows.
SaveHeadersState ==
    /\ header_editor' = [header_editor EXCEPT
                            !.headers_state = get_headers_state(header_editor.headers)]
    /\ HeaderFrame

\* switch_to_tab loads the state that was kept, when there is one and it
\* is not empty.
LoadHeadersState ==
    /\ header_editor.headers_state # "None"
    /\ header_editor.headers_state # << >>
    /\ header_editor' = [header_editor EXCEPT
                            !.headers = load_headers_state(header_editor.headers_state)]
    /\ HeaderFrame

NextHeaderRows ==
    \/ \E index \in ToggledIndexes : ToggleHeader(index)
    \/ \E index \in RemovedIndexes : RemoveHeaderRow(index)
    \/ \E request_headers \in ListsUpTo(RequestHeaderPairs, MaxPairs) :
          LoadRequestHeaders(request_headers)
    \/ SaveHeadersState
    \/ LoadHeadersState

SpecHeaderRows == Init /\ [][NextHeaderRows]_vars

(***************************************************************************)
(* src/src/body_editor.rs: the body of the request.  A row is addressed by *)
(* its position from 0.                                                    *)
(***************************************************************************)
MaxForm == 3

\* BodyEditor::get_body
get_body(be) ==
    CASE be.body_type_index = 0 -> BodyNone
      [] be.body_type_index = 1 -> BodyRaw(be.raw_body_editor, be.current_raw_subtype)
      [] be.body_type_index = 2 -> BodyFormData(be.formdata_rows)
      [] OTHER -> BodyNone

\* BodyEditor::set_body
set_body(be, body) ==
    CASE body.t = "None" -> [be EXCEPT !.body_type_index = 0]
      [] body.t = "Raw" ->
            [be EXCEPT !.body_type_index = 1, !.current_raw_subtype = body.subtype,
                       !.raw_body_editor = body.content]
      [] body.t = "FormData" ->
            add_formdata_row(
                [be EXCEPT !.body_type_index = 2, !.formdata_rows = body.rows,
                           !.formdata_input_states =
                               [i \in 1..Len(body.rows) |-> [row_index |-> i - 1]]])

\* BodyEditor::remove_formdata_row
remove_formdata_row(be, index) ==
    IF index < Len(be.formdata_rows)
    THEN [be EXCEPT !.formdata_rows = RemoveAt(@, index),
                    !.formdata_input_states = RemoveAt(@, index)]
    ELSE be

\* BodyEditor::update_formdata_key
update_formdata_key(be, index, new_key) ==
    IF index < Len(be.formdata_rows)
    THEN [be EXCEPT !.formdata_rows[index + 1].key = new_key]
    ELSE be

OtherKind(value) ==
    IF value.t = "Text" THEN FormFile(value.payload) ELSE FormText(value.payload)

\* The handler of SelectEvent::Confirm of a Text/File selector that was
\* created with this row_index.
on_type_confirm(be, row_index, selected_value) ==
    LET should_be_file == selected_value = "File"
        current_is_file == /\ row_index < Len(be.formdata_rows)
                           /\ be.formdata_rows[row_index + 1].value.t = "File"
    IN  IF should_be_file # current_is_file /\ row_index < Len(be.formdata_rows)
        THEN [be EXCEPT !.formdata_rows[row_index + 1].value = OtherKind(@)]
        ELSE be

\* The bodies that are loaded.
SetRows ==
    { FormDataRow(TRUE, << Ch.a >>, FormText(<< Ch.b >>)),
      FormDataRow(FALSE, << Ch.b >>, FormFile(<< Ch.a >>)) }
SetBodies ==
    { BodyNone, BodyRaw(<< >>, "Json"), BodyRaw(<< Ch.a >>, "Xml"), BodyRaw(<< Ch.b >>, "Text"),
      BodyRaw(<< Ch.a >>, "JavaScript") }
        \cup { BodyFormData(rows) : rows \in ListsUpTo(SetRows, MaxPairs) }

BodyFrame == UNCHANGED << editorVars, last, pure, app, header_editor >>

\* load_request: the body of a request is set.
SetBody(body) ==
    /\ body_editor' = [set_body(body_editor, body) EXCEPT
                          !.op = [name |-> "set_body", body |-> body]]
    /\ BodyFrame

\* The tab is saved and loaded again: save_current_tab_state keeps the
\* request with get_body, load_request sets it.
SaveAndLoad ==
    /\ Len(body_editor.formdata_rows) < MaxForm
    /\ body_editor' = [set_body(body_editor, get_body(body_editor)) EXCEPT
                          !.op = [name |-> "set_body", body |-> get_body(body_editor)]]
    /\ BodyFrame

\* The user types a key into the last row: the key input's handlers set
\* the key of the row and add an empty row.
AddFormDataRow ==
    /\ Len(body_editor.formdata_rows) >= 1
    /\ Len(body_editor.formdata_rows) < MaxForm
    /\ body_editor' =
          [add_formdata_row(update_formdata_key(body_editor,
                                Len(body_editor.formdata_rows) - 1, << Ch.a >>))
              EXCEPT !.op = [name |-> "add_formdata_row"]]
    /\ BodyFrame

RemoveFormDataRow(index) ==
    /\ index < Len(body_editor.formdata_rows)
    /\ body_editor' = [remove_formdata_row(body_editor, index) EXCEPT
                          !.op = [name |-> "remove_formdata_row"]]
    /\ BodyFrame

\* The user picks Text or File in the selector shown on the row at this
\* position.
ConfirmType(index, selected_value) ==
    /\ index < Len(body_editor.formdata_input_states)
    /\ body_editor' =
          [on_type_confirm(body_editor,
                           body_editor.formdata_input_states[index + 1].row_index,
                           selected_value)
              EXCEPT !.op = [name |-> "confirm", index |-> index,
                             selected_value |-> selected_value]]
    /\ BodyFrame

NextBody ==
    \/ \E body \in SetBodies : SetBody(body)
    \/ SaveAndLoad
    \/ AddFormDataRow
    \/ \E index \in 0..(MaxForm - 1) : RemoveFormDataRow(index)
    \/ \E index \in 0..(MaxForm - 1), selected_value \in { "Text", "File" } :
          ConfirmType(index, selected_value)

SpecBody == Init /\ [][NextBody]_vars

(***************************************************************************)
(* Properties.                                                             *)
(***************************************************************************)
\* The pairs of the rows that build_url_with_params would write.
EnabledPairs(rows) == PairsOf(SelectSeq(rows, LAMBDA r : r.enabled /\ r.key # << >>))

\* A URL-change event is at the head of the queue.
UrlEventNext == effects # << >> /\ Head(effects).src = "url"

\* A key or value event of a row is at the head of the queue.
RowEventNext == effects # << >> /\ Head(effects).src \in {"key", "value"}

\* C1: in every rest state reached by URL edits, param edits, toggles and
\* removals, the pairs parsed from the URL text are the pairs of the rows
\* that are enabled and have a non-empty key, in order.
C1_UrlMatchesEnabledRows ==
    AtRest => parse_query_params(url) = EnabledPairs(params)

AllIncluded(ps) == \A i \in 1..Len(ps) : Included(ps[i])

\* C2 as stated: for every base that does not end in '?' and every list of
\* enabled params with non-empty keys, parsing the built URL gives the
\* pairs of the list, in order, duplicates kept.
C2_RoundTripAnyBase ==
    (/\ pure.stage = "round_trip"
     /\ ~(pure.base # << >> /\ pure.base[Len(pure.base)] = QM)
     /\ AllIncluded(pure.params))
    => pure.parsed = PairsOf(pure.params)

\* C2 amended: for every base that contains neither '?' nor '#' and every
\* list of enabled params with non-empty keys, parsing the built URL gives
\* the pairs of the list, in order, duplicates kept.
C2_RoundTrip ==
    (/\ pure.stage = "round_trip"
     /\ Find(pure.base, QM) = 0
     /\ Find(pure.base, HASH) = 0
     /\ AllIncluded(pure.params))
    => pure.parsed = PairsOf(pure.params)

\* A round trip of two params, one with a key that must be escaped, on a
\* base without '?' and '#'.
C2_Witness ==
    /\ pure.stage = "round_trip"
    /\ pure.base # << >>
    /\ Find(pure.base, QM) = 0
    /\ Find(pure.base, HASH) = 0
    /\ AllIncluded(pure.params)
    /\ Len(pure.params) >= 2
    /\ pure.params[1].key = << AMP >>
    /\ pure.parsed = PairsOf(pure.params)

\* C3: while the URL-change event of a write of sync_params_to_url is not
\* yet delivered, updating_url is set, and its delivery leaves the rows as
\* they are.
C3_GuardHeldUntilDelivered ==
    [][ /\ (\E i \in 1..Len(effects) : effects[i].origin = "sync") => updating_url
        /\ (effects # << >> /\ Head(effects).origin = "sync")
              => params' = Settled(params) ]_vars

\* The event of a sync write was delivered to parse_url_to_params, which
\* returned at its guard.
C3_Witness ==
    /\ last.op = "deliver"
    /\ last.src = "url"
    /\ last.origin = "sync"
    /\ last.outcome = "guarded"
    /\ updating_url

\* C4: parse_url_to_params invoked while updating_url or parsing_url is set
\* changes neither the rows, nor last_parsed_url, nor the URL text, nor the
\* flags.
C4_GuardedParseChangesNothing ==
    [][ (UrlEventNext /\ (updating_url \/ parsing_url))
            => /\ params' = Settled(params)
               /\ UNCHANGED << url, last_parsed_url, updating_url, parsing_url >> ]_vars

\* A URL edit of the user was delivered while updating_url was still set.
C4_Witness ==
    /\ last.op = "deliver"
    /\ last.src = "url"
    /\ last.origin = "user"
    /\ last.outcome = "guarded"
    /\ url # last_parsed_url

\* C5: sync_params_to_url invoked while a guard is set (from a key or value
\* handler, toggle_param or remove_param) leaves the URL text and both flags
\* as they are; a rebuild of the rows and a load write no URL text from the
\* rows: no URL event of a sync is queued and no reset task is spawned.
C5_GuardedSyncChangesNothing ==
    [][ /\ ((updating_url \/ parsing_url)
              /\ (RowEventNext \/ last'.op \in {"toggle_param", "remove_param"}))
            => UNCHANGED << url, updating_url, parsing_url >>
        /\ (last'.outcome = "rebuilt" \/ last'.op \in {"load_request", "load_params_state"})
            => /\ \A i \in 1..Len(effects') : effects'[i].origin # "sync"
               /\ reset_tasks' = reset_tasks
               /\ updating_url' = updating_url
               /\ parsing_url' = parsing_url
               /\ (last'.op = "deliver" => url' = url)
               /\ (last'.op # "deliver" => url' \in LoadUrls) ]_vars

\* A key event was handled while updating_url was set.
C5_Witness ==
    /\ last.op = "deliver"
    /\ last.src = "key"
    /\ last.outcome = "guarded"

\* C6: after a user edit, without further input, the chain of handlers ends
\* and the editor is at rest: nothing pending and both flags clear.
C6_ReachesRest == (~AtRest) ~> AtRest

\* The task of a sync ran and left the editor at rest.
C6_Witness ==
    /\ AtRest
    /\ last.op = "reset"

\* C7: when a URL event is handled with both guards clear and the parsed
\* pairs are params_equal to the rows that are not empty, the rows are kept
\* as they are and neither the URL text nor a flag changes.
C7_EqualParamsKeepRows ==
    [][ (/\ UrlEventNext
         /\ url_subs > 0
         /\ ~updating_url /\ ~parsing_url
         /\ params_equal(NewParams(url).pairs, CurrentParams(params)))
            => /\ params' = Settled(params)
               /\ UNCHANGED << url, updating_url, parsing_url >> ]_vars

C9_LastRowIsPlaceholder ==
    Idle => (params # << >> /\ IsPlaceholder(params[Len(params)]))

\* C10: with one real row followed by the placeholder, remove_param on the
\* real row leaves exactly one row, the placeholder.
C10_RemoveLastRealRow ==
    [][ (/\ Len(params) = 2
         /\ ~IsPlaceholder(params[1])
         /\ IsPlaceholder(params[2])
         /\ last'.op = "remove_param"
         /\ last'.index = 0)
            => (Len(params') = 1 /\ IsPlaceholder(params'[1])) ]_vars

\* A key event of the row at position i is at the head of the queue.
KeyEventOf(i) ==
    effects # << >> /\ Head(effects).src = "key" /\ Head(effects).id = i

\* C11: when the key of the trailing placeholder row becomes non-empty,
\* exactly one new empty row is appended after it and the rows before it
\* stay; a key change on a row that is not the last row appends nothing.
C11_AutoAppend ==
    [][ \A i \in 1..Len(params) :
          KeyEventOf(i) =>
            /\ (i = Len(params) /\ params[i].key # << >> /\ params[i].value = << >>)
                  => /\ Len(params') = Len(params) + 1
                     /\ IsPlaceholder(params'[Len(params')])
                     /\ SubSeq(PairsOf(params'), 1, Len(params)) = PairsOf(params)
            /\ (i < Len(params)) => PairsOf(params') = PairsOf(params) ]_vars

RECURSIVE Count(_, _)
\* Number of occurrences of c in s.
Count(s, c) ==
    IF s = << >> THEN 0
    ELSE (IF Head(s) = c THEN 1 ELSE 0) + Count(Tail(s), c)

\* C12: a Params->URL sync sets the URL text to
\* build_url_with_params(extract_base_url(u), rows) for the URL text u and
\* the rows at the moment of the sync; the part before the first '?' is
\* unchanged and the new URL has at most one '?'.
C12_SyncBuildsFromBase ==
    pure.stage = "sync"
    => /\ pure.updating_url
       /\ pure.url_after = build_url_with_params(extract_base_url(pure.base), pure.params)
       /\ extract_base_url(pure.url_after) = extract_base_url(pure.base)
       /\ Count(pure.url_after, QM) <= 1

\* A sync on a URL text that has a query, with a row whose key holds '?'.
C12_Witness ==
    /\ pure.stage = "sync"
    /\ Find(pure.base, QM) # 0
    /\ Len(pure.base) > Find(pure.base, QM)
    /\ Len(pure.params) >= 1
    /\ Included(pure.params[1])
    /\ pure.params[1].key = << QM >>
    /\ pure.url_after # pure.base

\* The user has just changed a row: its key, its value, its enabled flag,
\* or removed it.
RowChanged ==
    \/ (last.op = "edit" /\ last.src \in {"key", "value"})
    \/ last.op \in {"toggle_param", "remove_param"}

\* The URL text is the URL built from the current rows.
UrlInSync == url = build_url_with_params(extract_base_url(url), params)

\* C13: every key change, value change, toggle and removal of a row is
\* eventually followed by a state in which the URL text is the URL built
\* from the current rows.
C13_RowChangeReachesUrl == RowChanged ~> UrlInSync

FlagsExclusive(e) == ~(e.updating_url /\ e.parsing_url)

\* C14: updating_url and parsing_url are never both set: not between two
\* handlers, not while parse_url_to_params rebuilds the rows (parsing_url is
\* set from line 583 to line 621), and not while load_params_state builds
\* them (parsing_url is set from line 304 to line 339).
C14_FlagsExclusive ==
    /\ [](~(updating_url /\ parsing_url))
    /\ [][ /\ (last'.outcome = "rebuilt") => ~updating_url
           /\ (last'.op = "load_params_state")
                 => FlagsExclusive(load_params_begin(load_request(Editor, url'))) ]_vars

RECURSIVE QueryOf(_, _)
\* The query text that C15 describes: key=value of the enabled params with a
\* non-empty key, percent-encoded, in order, with '&' between two of them.
QueryOf(ps, first) ==
    IF ps = << >> THEN << >>
    ELSE LET p == Head(ps)
         IN  IF p.enabled /\ p.key # << >>
             THEN (IF first THEN << >> ELSE << AMP >>)
                  \o Encode(p.key) \o << EQ >> \o Encode(p.value)
                  \o QueryOf(Tail(ps), FALSE)
             ELSE QueryOf(Tail(ps), first)

SomeEnabledKey(ps) == \E i \in 1..Len(ps) : ps[i].enabled /\ ps[i].key # << >>

\* C15: build_url_with_params(base, params) is base exactly when no param is
\* enabled with a non-empty key; otherwise it is base, one '?', and the
\* percent-encoded key=value of exactly those params, in order, joined by '&'.
C15_BuildUrl ==
    pure.stage = "round_trip"
    => /\ (pure.built = pure.base) <=> ~SomeEnabledKey(pure.params)
       /\ SomeEnabledKey(pure.params)
             => /\ pure.built = pure.base \o << QM >> \o QueryOf(pure.params, TRUE)
                /\ Count(pure.built, QM) = Count(pure.base, QM) + 1

C15_Witness ==
    /\ pure.stage = "round_trip"
    /\ Len(pure.params) = MaxPairs
    /\ ~pure.params[1].enabled /\ pure.params[1].key # << >>
    /\ pure.params[MaxPairs].enabled /\ pure.params[MaxPairs].key = << AMP >>
    /\ pure.built # pure.base

\* C16: extract_base_url(url) is the prefix of url before its first '?', and
\* url itself when url has no '?'; the result never contains '?'; applying
\* the function to its result changes nothing.
C16_ExtractBaseUrl ==
    pure.stage = "parsed"
    => /\ (Count(pure.text, QM) = 0) => pure.base = pure.text
       /\ (Count(pure.text, QM) > 0)
             => /\ Len(pure.base) < Len(pure.text)
                /\ pure.base = SubSeq(pure.text, 1, Len(pure.base))
                /\ pure.text[Len(pure.base) + 1] = QM
       /\ Count(pure.base, QM) = 0
       /\ extract_base_url(pure.base) = pure.base

C16_Witness ==
    /\ pure.stage = "parsed"
    /\ Count(pure.text, QM) >= 2
    /\ pure.base # << >>
    /\ pure.base # pure.text

\* The text after the first '?' of t, split on '&'.
SegmentsOf(t) == Split(SubSeq(t, Find(t, QM) + 1, Len(t)), AMP)

\* A segment split on its first '=': the text before it, or the whole
\* segment, percent-decoded as the code decodes it, and the text after it.
SegmentKey(seg) ==
    DecodeOrDefault(IF Count(seg, EQ) = 0 THEN seg ELSE SubSeq(seg, 1, Find(seg, EQ) - 1))
SegmentValue(seg) ==
    IF Count(seg, EQ) = 0 THEN << >>
    ELSE DecodeOrDefault(SubSeq(seg, Find(seg, EQ) + 1, Len(seg)))

FallbackPath(t) == ~UrlParseOk(t) /\ Count(t, QM) > 0

\* C17: when the strict parse fails and the text has a '?', the result of
\* parse_query_params is, in order, one (key, value) for every '&'-separated
\* segment after the first '?' whose decoded key is not empty, the segment
\* being split on its first '=' and a segment without '=' giving (key, "").
C17_FallbackPairs ==
    (pure.stage = "parsed" /\ FallbackPath(pure.text))
    => LET kept == SelectSeq(SegmentsOf(pure.text), LAMBDA seg : SegmentKey(seg) # << >>)
       IN  /\ Len(pure.parsed) = Len(kept)
           /\ \A i \in 1..Len(kept) :
                 pure.parsed[i] = << SegmentKey(kept[i]), SegmentValue(kept[i]) >>

\* Two different pairs, from a segment without '=' and a segment with one.
C17_Witness ==
    /\ pure.stage = "parsed"
    /\ FallbackPath(pure.text)
    /\ Len(SegmentsOf(pure.text)) = 2
    /\ Count(SegmentsOf(pure.text)[1], EQ) = 0
    /\ Count(SegmentsOf(pure.text)[2], EQ) > 0
    /\ Len(pure.parsed) = 2
    /\ pure.parsed[1] # pure.parsed[2]

DecodeFails(s) == ~Utf8Valid(DecodeBytes(s))

\* The text that C18 describes for a key or a value: the decoded text, and
\* the text as it is when decoding fails.
DecodedOrRaw(s) == IF DecodeFails(s) THEN s ELSE DecodeBytes(s)

RawKey(seg) == IF Count(seg, EQ) = 0 THEN seg ELSE SubSeq(seg, 1, Find(seg, EQ) - 1)
RawValue(seg) == IF Count(seg, EQ) = 0 THEN << >> ELSE SubSeq(seg, Find(seg, EQ) + 1, Len(seg))

\* C18: in the fallback path, a key or a value whose percent-decoding fails
\* is returned as the undecoded text: the pair is returned and the other
\* pairs are what they are without it.
C18_RawOnDecodeFailure ==
    (pure.stage = "parsed" /\ FallbackPath(pure.text))
    => LET kept == SelectSeq(SegmentsOf(pure.text),
                             LAMBDA seg : DecodedOrRaw(RawKey(seg)) # << >>)
       IN  /\ Len(pure.parsed) = Len(kept)
           /\ \A i \in 1..Len(kept) :
                 pure.parsed[i] = << DecodedOrRaw(RawKey(kept[i])),
                                    DecodedOrRaw(RawValue(kept[i])) >>

\* A Rust String: bytes that are well-formed UTF-8.
IsString(s) ==
    /\ s = [i \in 1..Len(s) |-> s[i]]
    /\ \A i \in 1..Len(s) : s[i] \in 0..255
    /\ Utf8Valid(s)

\* C19: parse_query_params returns a list of (String, String) for every
\* text; the list is empty for the empty text and for every text without '?'.
C19_TotalAndEmpty ==
    pure.stage = "parsed"
    => /\ \A i \in 1..Len(pure.parsed) :
             /\ Len(pure.parsed[i]) = 2
             /\ IsString(pure.parsed[i][1])
             /\ IsString(pure.parsed[i][2])
       /\ (pure.text = << >>) => pure.parsed = << >>
       /\ (Count(pure.text, QM) = 0) => pure.parsed = << >>

\* A text without '?' that has the shape of a query.
C19_Witness ==
    /\ pure.stage = "parsed"
    /\ Count(pure.text, QM) = 0
    /\ Count(pure.text, EQ) > 0
    /\ Count(pure.text, AMP) > 0
    /\ ~UrlParseOk(pure.text)
    /\ pure.text[1] = Ch.a
    /\ pure.parsed = << >>

RECURSIVE WithoutEmpty(_)
\* The list without its entries whose key and value are both empty.
WithoutEmpty(l) ==
    IF l = << >> THEN << >>
    ELSE IF Head(l) = << EmptyStr, EmptyStr >> THEN WithoutEmpty(Tail(l))
    ELSE << Head(l) >> \o WithoutEmpty(Tail(l))

\* The list with ("", "") inserted after its first pos entries.
WithEmptyAt(l, pos) ==
    SubSeq(l, 1, pos) \o << << EmptyStr, EmptyStr >> >> \o SubSeq(l, pos + 1, Len(l))

\* The same pairs, each once and none empty, in another order.
Reordered(l1, l2) ==
    /\ WithoutEmpty(l1) = l1 /\ WithoutEmpty(l2) = l2
    /\ Len(l1) = Len(l2)
    /\ Cardinality({ l1[i] : i \in 1..Len(l1) }) = Len(l1)
    /\ { l1[i] : i \in 1..Len(l1) } = { l2[i] : i \in 1..Len(l2) }
    /\ l1 # l2

C21_FormatIffValidate ==
    pure.stage = "formatted" => (pure.format_json.ok <=> pure.validate_json.ok)

\* C21: for every input that is not empty or whitespace-only, format_json
\* succeeds exactly when validate_json succeeds; for every input, success of
\* format_json implies success of validate_json.
C21_FormatIffValidateNotBlank ==
    pure.stage = "formatted"
    => /\ ~IsBlank(pure.input) => (pure.format_json.ok <=> pure.validate_json.ok)
       /\ pure.format_json.ok => pure.validate_json.ok

\* A value followed by more text: both functions fail.
C21_Witness ==
    /\ pure.stage = "formatted"
    /\ ~IsBlank(pure.input)
    /\ JsonPrefixFromStr(pure.input).ok
    /\ ~pure.format_json.ok
    /\ ~pure.validate_json.ok

\* C22: on empty or whitespace-only input validate_json and validate_xml
\* succeed, and format_json and format_xml return the "Empty input" error,
\* which is not the error of a parse.
C22_BlankInput ==
    /\ (pure.stage = "formatted" /\ IsBlank(pure.input))
          => /\ pure.validate_json.ok
             /\ ~pure.format_json.ok /\ pure.format_json.err = "Empty input"
    /\ (pure.stage = "xml" /\ IsBlank(pure.input))
          => /\ pure.validate_xml.ok
             /\ ~pure.format_xml.ok /\ pure.format_xml.err = "Empty input"

C22_Witness ==
    /\ pure.stage = "formatted"
    /\ Len(pure.input) >= 2
    /\ IsBlank(pure.input)
    /\ pure.format_json.err = "Empty input"

C24_ResponsePredicates ==
    pure.stage = "response"
    => /\ pure.is_network_error <=> (pure.status = NoStatus)
       /\ pure.is_success
             <=> (pure.status.some /\ 200 <= pure.status.value /\ pure.status.value < 300)
       /\ pure.is_error <=> (~pure.status.some \/ pure.status.value >= 400)
       /\ ~(pure.is_success /\ pure.is_error)
       /\ pure.is_network_error => (pure.is_error /\ ~pure.is_success)

\* The first status that is not a success any more.
C24_Witness ==
    /\ pure.stage = "response"
    /\ pure.status = Status(300)
    /\ ~pure.is_success /\ ~pure.is_error /\ ~pure.is_network_error

\* The rows that count for the request: enabled, with a key and a value.
NamesContentType(rows) ==
    \E i \in 1..Len(rows) :
        /\ rows[i].enabled /\ rows[i].key # << >> /\ rows[i].value # << >>
        /\ [j \in 1..Len(rows[i].key) |-> AsciiLower(rows[i].key[j])]
              = [j \in 1..Len(ContentTypeName) |-> AsciiLower(ContentTypeName[j])]

\* C26: the headers of a sent request are the enabled rows with a non-empty
\* key and value, and one Content-Type header more, with the content type
\* of the Raw subtype, exactly when the body is Raw and none of those rows
\* is named Content-Type in upper or lower case; nothing is appended for a
\* None or FormData body.
C26_ContentTypeAppended ==
    pure.stage = "headers"
    => IF pure.body.t = "Raw" /\ ~NamesContentType(pure.rows)
       THEN /\ Len(pure.headers) = Len(EnabledHeaders(pure.rows)) + 1
            /\ SubSeq(pure.headers, 1, Len(pure.headers) - 1) = EnabledHeaders(pure.rows)
            /\ pure.headers[Len(pure.headers)]
                  = << ContentTypeName, content_type(pure.body.subtype) >>
       ELSE pure.headers = EnabledHeaders(pure.rows)

\* A Raw body next to a row named content-type in lower case: nothing is
\* appended.
C26_Witness ==
    /\ pure.stage = "headers"
    /\ pure.body.t = "Raw"
    /\ Len(pure.rows) = 2
    /\ ~pure.rows[1].enabled /\ pure.rows[1].key = ContentTypeName
    /\ pure.rows[2].key # ContentTypeName
    /\ NamesContentType(pure.rows)
    /\ Len(pure.headers) = 1

\* A task of send_request has ended.
TaskEnds == Len(app'.tasks) < Len(app.tasks)

LastEvent(a) == a.completed[Len(a.completed)]

\* C25: when the task of a send_request ends, one RequestCompleted event
\* more has been emitted, for this send, and loading is false; the
\* response of a failed transport has no status, no headers and the error
\* message as body.
C25_SendEndsWithOneEvent ==
    [][TaskEnds =>
          /\ Len(app'.completed) = Len(app.completed) + 1
          /\ LastEvent(app').send = Head(app.tasks).send
          /\ ~app'.loading
          /\ ~LastEvent(app').transport_ok =>
                /\ LastEvent(app').response.status = NoStatus
                /\ LastEvent(app').response.headers = << >>
                /\ LastEvent(app').response.body[1] = "Request failed: "]_vars

\* C29: a request sent from a tab that was not opened from history gets
\* one row in the history table when it completes, a request sent from a
\* tab opened from history gets none, whichever tab is active by then; no
\* other step writes a row.
C29_HistoryInsertedOnce ==
    [][IF TaskEnds /\ ~app'.crashed
       THEN IF Head(app.tasks).from_history
            THEN app'.history = app.history
            ELSE /\ Len(app'.history) = Len(app.history) + 1
                 /\ SubSeq(app'.history, 1, Len(app.history)) = app.history
                 /\ app'.history[Len(app'.history)].send = Head(app.tasks).send
       ELSE app'.history = app.history]_vars

\* C27: the load turns every stored row into a HistoryItem and never
\* fails: a method text that names no method gives GET, a headers text
\* that is not a JSON list of pairs gives no headers, a body text that is
\* not the JSON of a BodyType gives the default body, Raw with empty
\* content and subtype Json.
C27_LoadNeverFails ==
    pure.stage = "loaded"
    => /\ pure.result.ok
       /\ pure.result.out.id = pure.row.id
       /\ pure.result.out.request.url = pure.row.url
       /\ pure.result.out.request.method \in HttpMethods
       /\ pure.result.out.request.body.t \in { "None", "Raw", "FormData" }
       /\ (\A m \in HttpMethods : as_str(m) # ToUpper(pure.row.method))
             => pure.result.out.request.method = "GET"
       /\ pure.row.request_headers \in InvalidHeaderTexts
             => pure.result.out.request.headers = << >>
       /\ pure.row.request_body \in InvalidBodyTexts
             => pure.result.out.request.body = [t |-> "Raw", content |-> << >>, subtype |-> "Json"]

\* A row whose three texts are all broken is loaded with the three
\* defaults.
C27_Witness ==
    /\ pure.stage = "loaded"
    /\ pure.row.method # << >> /\ HttpMethodFromStr(pure.row.method) = None
    /\ pure.row.request_headers \in InvalidHeaderTexts /\ pure.row.request_headers # << >>
    /\ pure.row.request_body \in InvalidBodyTexts /\ Len(pure.row.request_body) > 1
    /\ pure.result.ok
    /\ pure.result.out.request.method = "GET"
    /\ pure.result.out.request.headers = << >>
    /\ pure.result.out.request.body = DefaultBody

\* The rows whose texts are well formed are loaded with their values.
StoredTextsClassified ==
    pure.stage = "loaded"
    => /\ pure.row.request_body \in ValidBodyTexts
             => pure.result.out.request.body # DefaultBody
       /\ pure.row.request_headers \in ValidHeaderTexts
             => HeadersFromStr(pure.row.request_headers).some

\* C28: toggle_formdata_type turns the value of the row into the other
\* kind with the same string, leaves enabled and key of the row and all
\* other rows as they are, and a second toggle gives the rows back; an
\* index that is no row changes nothing.
C28_ToggleKeepsPayload ==
    pure.stage = "toggled"
    => LET rows == pure.rows
           once == pure.once.formdata_rows
           i == pure.index + 1
       IN  /\ Len(once) = Len(rows)
           /\ \A j \in 1..Len(rows) : j # i => once[j] = rows[j]
           /\ i <= Len(rows)
                 => /\ once[i].value.payload = rows[i].value.payload
                    /\ once[i].value.t # rows[i].value.t
                    /\ once[i].value.t \in { "Text", "File" }
                    /\ once[i].enabled = rows[i].enabled
                    /\ once[i].key = rows[i].key
           /\ pure.twice.formdata_rows = rows

\* The second of two rows, disabled and with a file path, is toggled.
C28_Witness ==
    /\ pure.stage = "toggled"
    /\ Len(pure.rows) = 2 /\ pure.index = 1
    /\ pure.rows[2] = FormDataRow(FALSE, << Ch.a >>, FormFile(<< Ch.b >>))
    /\ pure.once.formdata_rows[2] = FormDataRow(FALSE, << Ch.a >>, FormText(<< Ch.b >>))
    /\ pure.twice.formdata_rows = pure.rows

\* C30: for every URL text on which parse_url_to_params goes on to compare
\* or rebuild (it does not return to keep the rows), the pairs it computes
\* are the pairs of parse_query_params for that text.
C30_EditorPairsAgree ==
    (pure.stage = "parsed" /\ ~pure.new_params.keep)
        => pure.new_params.pairs = pure.parsed

\* The handler of parse_url_to_params runs for a URL text typed by the user.
UserUrlParsed == last'.op = "deliver" /\ last'.src = "url" /\ last'.origin = "user"

\* C31: when the URL text typed by the user is not empty, is no URL for
\* the strict parser and has no '?', the rows are left as they are; when
\* it is empty, no row with a key or a value is left.
C31_KeepOrClear ==
    [][UserUrlParsed =>
          /\ (url # << >> /\ ~UrlParseOk(url) /\ Find(url, QM) = 0)
                => params' = Settled(params)
          /\ url = << >> => CurrentParams(params') = << >>]_vars

\* C35: whenever parse_url_to_params returns because the URL text is
\* last_parsed_url, the rows with a key or a value are already the pairs
\* parsed from that text.
C35_SkippedUrlIsParsed ==
    (last.op = "deliver" /\ last.src = "url" /\ last.outcome = "same_url"
        /\ ~NewParams(url).keep)
        => CurrentParams(params) = NewParams(url).pairs

\* C36: when the user has changed only the part of the URL before the
\* first '?', parse_url_to_params leaves every row as it is, the disabled
\* rows too.  (Under SpecBase every URL edit of the user is such an edit.)
C36_BaseEditKeepsRows ==
    [][UserUrlParsed => params' = Settled(params)]_vars

\* The value of the row of a predefined header.
PredefinedValue(headers, p) ==
    headers[CHOOSE i \in 1..Len(headers) : headers[i].predefined = p].value

\* The headers of a request whose name matches a predefined header.
MatchesOf(request_headers, p) ==
    SelectSeq(request_headers, LAMBDA kv : EqIgnoreAsciiCase(predefined_name(p), kv[1]))

\* C32: after load_request the row of a predefined header whose name
\* matches two or more headers of the request holds the value of the first
\* of them.
C32_FirstMatchWins ==
    [][header_editor'.request # header_editor.request
          => \A i \in 1..Len(PredefinedAll) :
                Len(MatchesOf(header_editor'.request, PredefinedAll[i])) >= 2
                   => PredefinedValue(header_editor'.headers, PredefinedAll[i])
                         = MatchesOf(header_editor'.request, PredefinedAll[i])[1][2]]_vars

\* C33: whatever rows are toggled, removed, loaded from a request or
\* restored from a saved state, the mandatory Cache-Control row is there and
\* it is enabled.
C33_CacheControlMandatory ==
    \E i \in 1..Len(header_editor.headers) :
        /\ header_editor.headers[i].predefined = "CacheControl"
        /\ header_editor.headers[i].header_type = "Mandatory"
        /\ header_editor.headers[i].enabled

\* The mandatory row was clicked, a custom row was removed, and a saved
\* state was restored over rows loaded from a request.
C33_Witness ==
    /\ header_editor.headers_state # "None"
    /\ header_editor.request # << >>
    /\ header_editor.headers = load_headers_state(header_editor.headers_state)
    /\ header_editor.headers # load_request_headers(header_editor.request)
    /\ \E i \in 1..Len(header_editor.headers) :
          header_editor.headers[i].header_type = "Predefined"
             /\ ~header_editor.headers[i].enabled

\* The history items that are open in a tab.
OpenItems == { i \in 1..Len(app.history) : PositionOf(app.tabs, app.history[i].id) >= 0 }

C37_StoredOnSendingTab ==
    [][Len(app'.completed) > Len(app.completed)
          => LET task == Head(app.tasks)
                 event == app'.completed[Len(app'.completed)]
             IN  \E i \in 1..Len(app'.tabs) :
                    /\ app'.tabs[i].id = task.tab
                    /\ app'.tabs[i].request = event.request
                    /\ app'.tabs[i].response = event.response]_vars

\* C38: there is always a tab, the active index names one of the tabs, and
\* closing the only tab leaves one fresh empty tab.
C38_ActiveTabExists ==
    /\ Len(app.tabs) >= 1
    /\ app.active >= 0
    /\ app.active < Len(app.tabs)
    /\ Len(app.tabs) = 1
          => LET closed == close_tab(app, 0)
             IN  /\ closed.tabs = << new_empty(app.next_tab_id) >>
                 /\ closed.active = 0
                 /\ closed.request = EmptyStr

\* The only tab left was opened from history, after a tab before it was
\* closed.
C38_Witness ==
    /\ Len(app.tabs) = 1
    /\ app.tabs[1].history_id # 0
    /\ app.tabs[1].id > 0
    /\ app.active = 0

\* C39: confirming Text or File in the selector shown on the row at
\* position i leaves that row with the kind that was picked and changes no
\* other row.
C39_ConfirmChangesItsRow ==
    [][body_editor'.op.name = "confirm"
          => LET i == body_editor'.op.index + 1
             IN  /\ Len(body_editor'.formdata_rows) = Len(body_editor.formdata_rows)
                 /\ body_editor'.formdata_rows[i].value.t = body_editor'.op.selected_value
                 /\ \A j \in 1..Len(body_editor.formdata_rows) :
                       j # i => body_editor'.formdata_rows[j] = body_editor.formdata_rows[j]]_vars

\* C40: after set_body, get_body returns the body that was set; this
\* covers a tab that is saved and loaded again.
C40_SetThenGet ==
    [][body_editor'.op.name = "set_body"
          => get_body(body_editor') = body_editor'.op.body]_vars

====
